---- MODULE Spec2Model ----
(***************************************************************************)
(* A model of the melina-studio backend core: the tool executor            *)
(* (llm_handlers/tool_handler.go), the provider tool-calling loops          *)
(* (llm_handlers/anthropic.go, langchain.go, gemini.go) and the websocket   *)
(* connection hub (libraries/websocket.go).                                 *)
(***************************************************************************)
EXTENDS Integers, Sequences, FiniteSets, TLC

(***************************************************************************)
(* Bounds of the model.                                                     *)
(***************************************************************************)
MaxBatch == 3

\* capacity of client.Send in the model (the code allocates 256 slots)
QueueCap == 2

\* frames the read loops receive, chat runs started, envelopes one chat run
\* sends, broadcasts submitted
MaxFrames == 1

MaxRuns == 1

MaxRunMsgs == 3

MaxBroadcasts == 1

\* text chunks the backend produces in one run, tool calls in one response,
\* shape_created envelopes the handlers of one run emit
MaxChunks == 3

MaxRespCalls == 1

MaxShapes == 1

\* RegisterTool and UnregisterTool calls made by the registry's callers
MaxRegOps == 3

\* tool-calling responses the backend gives a run whose turns are followed,
\* and tool calls in one response of such a run
MaxToolRounds == 1

MaxConvCalls == 2

\* backend calls of a streaming run that is followed with another run
MaxStreamCalls == 2

\* text chunks a backend call of such a run delivers
MaxStreamChunks == 2

\* tool calls in a batch whose handlers return any value
MaxImageCalls == 1

\* events of one streamed response
MaxEvents == 3

\* const maxIterations of the three loops
AnthropicMaxIterations == 10

LangChainMaxIterations == 8

GeminiMaxIterations == 8

(***************************************************************************)
(* Tool executor state.                                                     *)
(*   toolHandlers : the registry, tool name -> handler                      *)
(*   toolCalls    : the batch handed to ExecuteTools                        *)
(*   tcIdx        : position of the range loop over toolCalls (next call)   *)
(*   results      : the results slice built so far                          *)
(*   outcomes     : what the handler did for each processed call           *)
(*                  ("none" when no handler was invoked)                    *)
(*   etPc         : "idle", "exec" (inside ExecuteTools), "done" (returned),*)
(*                  "panicked" (a panic left ExecuteTools)                  *)
(***************************************************************************)
VARIABLES toolHandlers, toolCalls, tcIdx, results, outcomes, etPc

(***************************************************************************)
(* Callers of the registry functions.                                       *)
(*   toolHandlersMu : the RWMutex: whether a writer holds it and how many   *)
(*                  readers hold it                                         *)
(*   regPc        : per goroutine: "idle", "waiting" (at Lock / RLock),     *)
(*                  "locked" (holds the mutex, the deferred unlock pending) *)
(*   regOp        : the registry function the goroutine called, with its    *)
(*                  arguments                                               *)
(*   regLog       : the RegisterTool and UnregisterTool calls that have     *)
(*                  returned, in the order they held the mutex              *)
(*   regFound     : the name and the return values of the getToolHandler    *)
(*                  call that returned last                                 *)
(***************************************************************************)
VARIABLES toolHandlersMu, regPc, regOp, regLog, regFound

registryVars == <<toolHandlers, toolHandlersMu, regPc, regOp, regLog, regFound>>

toolVars == <<toolHandlers, toolHandlersMu, regPc, regOp, regLog, regFound,
              toolCalls, tcIdx, results, outcomes, etPc>>

(***************************************************************************)
(* Connection hub state (libraries/websocket.go).                           *)
(*   Clients     : hub.Clients, the registry (ids of the registered clients)*)
(*   Send        : client.Send, the buffered outbound channel of a client   *)
(*   chanClosed  : whether client.Send has been closed                      *)
(*   onceDone    : whether client.once has run                              *)
(*   closeCount  : how many times close(client.Send) was executed           *)
(*   hubPc       : "select" (Hub.Run waits in its select) or "broadcast"    *)
(*                 (inside the range loop of the broadcast case)            *)
(*   bcastMsg, bcastTodo, bcastCur : the message being broadcast, the       *)
(*                 clients the range has not reached, the client the hub    *)
(*                 is sending to ("none" when the range is over)            *)
(*   pc          : the connection handler goroutine (read loop) per client  *)
(*   wpc         : the write loop goroutine per client                      *)
(*   connClosed  : conn.Close() has been called                             *)
(*   framesRead  : frames the read loops have received                      *)
(*   runPc, runNext : the chat run started for the client and the number of *)
(*                 the next envelope it sends                               *)
(*   written     : the run envelopes written to the socket, in order        *)
(*   lastFrame   : the client and the kind of the frame a read loop        *)
(*                 received last ("none" before the first frame)           *)
(*   bcastCount  : broadcasts submitted so far                              *)
(*   crashed     : an unrecovered panic has ended the process               *)
(***************************************************************************)
VARIABLES Clients, Send, chanClosed, onceDone, closeCount,
          hubPc, bcastMsg, bcastTodo, bcastCur,
          pc, wpc, connClosed, framesRead, lastFrame, runPc, runNext,
          written, bcastCount, crashed

hubVars == <<Clients, Send, chanClosed, onceDone, closeCount,
             hubPc, bcastMsg, bcastTodo, bcastCur,
             pc, wpc, connClosed, framesRead, lastFrame, runPc, runNext,
             written, bcastCount, crashed>>

(***************************************************************************)
(* State of one ChatWithTools run.                                          *)
(*   provider     : which loop runs: "anthropic", "langchain" or "gemini"   *)
(*   streaming    : streamCtx != nil && streamCtx.Client != nil             *)
(*   toolsConfigured : len(c.Tools) > 0 (LangChain installs its streaming   *)
(*                  callback only then)                                     *)
(*   loopPc       : "top" (loop condition), "model" (inside the backend     *)
(*                  call), "tools" (inside ExecuteTools), "flush" (sending  *)
(*                  the buffered chunks), "returned", "panicked", "idle"    *)
(*   iter         : the loop variable                                       *)
(*   modelCalls   : backend calls started                                   *)
(*   lastResp     : lastResp, a response named by the number of the call    *)
(*                  that returned it, 0 for nil                             *)
(*   retResp, retErr : what ChatWithTools returned                          *)
(*   BufferedChunks, ShouldStream : fields of the iteration's               *)
(*                  StreamingContext                                        *)
(*   flushIdx     : position of the range over BufferedChunks               *)
(*   chunkKind    : chunkKind[n] tells of text chunk n (chunks are numbered *)
(*                  in production order) whether the backend call that      *)
(*                  produced it is still "pending", returned tool calls     *)
(*                  ("tool") or returned none ("final")                     *)
(*   callHadTools : callHadTools[k] iff the response of backend call k      *)
(*                  contained at least one tool call                        *)
(*   sentChunks   : the chunks enqueued to the client as chat_response      *)
(*   shapesSent   : shape_created envelopes enqueued by tool handlers       *)
(*   workingMessages : the conversation of the run, a sequence of turns     *)
(*   trackTurns   : the turns of the run are followed; a run that is        *)
(*                  followed gets at most MaxToolRounds tool-calling       *)
(*                  responses from its backend, other runs leave           *)
(*                  workingMessages at the initial messages                *)
(*   procPc       : position of ProcessChatMessage around the loop:        *)
(*                  "none" (ChatWithTools called directly), "entry",       *)
(*                  "agent" (inside ProcessRequestStream), "done",         *)
(*                  "failed"                                               *)
(*   runSent      : the envelopes the run has enqueued to its client       *)
(***************************************************************************)
VARIABLES provider, streaming, toolsConfigured, loopPc, iter, modelCalls,
          lastResp, retResp, retErr, BufferedChunks, ShouldStream, flushIdx,
          chunkKind, callHadTools, sentChunks, shapesSent, trackTurns,
          procPc, workingMessages, runSent

loopVars == <<provider, streaming, toolsConfigured, loopPc, iter, modelCalls,
              lastResp, retResp, retErr, BufferedChunks, ShouldStream,
              flushIdx, chunkKind, callHadTools, sentChunks, shapesSent,
              trackTurns, procPc, workingMessages, runSent>>

(***************************************************************************)
(* State of one TriggerChatWorkflow request (workflow/workflow.go) and of   *)
(* the chats table (repo/chat.go).                                          *)
(*   triggerPc    : "idle", "entry" (validating the request), "history"     *)
(*                  (GetChatHistory), "agent" (inside ProcessRequest),      *)
(*                  "tx" (inside the transaction of                         *)
(*                  CreateHumanAndAiMessages), "created" (it returned nil), *)
(*                  "responded"                                             *)
(*   chats        : the committed rows of the chats table                   *)
(*   txRows       : the rows created inside the open transaction            *)
(*   aiResponse   : what ProcessRequest returned                            *)
(*   status       : the HTTP status of the response, 0 before it            *)
(***************************************************************************)
VARIABLES triggerPc, chats, txRows, aiResponse, status

workflowVars == <<triggerPc, chats, txRows, aiResponse, status>>

(***************************************************************************)
(* Streaming runs going on at the same time (ChatStream and ChatWithTools   *)
(* of llm_handlers/langchain.go), each started by a chat_message frame.     *)
(*   contexts     : the StreamingContext objects, by address; an address no *)
(*                  run refers to is free                                   *)
(*   streamCtx    : per run, the address of the context ChatStream built,   *)
(*                  0 for none                                              *)
(*   currentStreamCtx : per run, the address of the context of the          *)
(*                  iteration, 0 for none                                   *)
(*   streamPc     : per run: "idle", "top", "model", "flush", "returned"    *)
(*   streamIter   : per run, the backend calls started                      *)
(*   flushPos     : per run, the position of the range over BufferedChunks  *)
(*   flushed      : per run, the chunks the run sent to the client          *)
(***************************************************************************)
VARIABLES contexts, streamCtx, currentStreamCtx, streamPc, streamIter,
          flushPos, flushed

streamVars == <<contexts, streamCtx, currentStreamCtx, streamPc, streamIter,
                flushPos, flushed>>

(***************************************************************************)
(* StreamClaudeWithMessages reading the events of one response.             *)
(*   scanPc       : "idle", "scanning", "returned" (cr, nil) or "failed"    *)
(*                  (nil, scanner error)                                    *)
(*   scanned      : the number of events read so far                        *)
(*   announced    : the tool_use blocks with an id and a name that the      *)
(*                  events read so far carried, each id once, in the order  *)
(*                  of receipt                                              *)
(*   currentToolUseBuilders : block index -> the ToolUse being built        *)
(*   ToolUses     : cr.ToolUses                                             *)
(***************************************************************************)
VARIABLES scanPc, scanned, announced, currentToolUseBuilders, ToolUses

scanVars == <<scanPc, scanned, announced, currentToolUseBuilders, ToolUses>>

vars == <<toolVars, hubVars, loopVars, workflowVars, streamVars, scanVars>>

RECURSIVE SeqsUpTo(_, _)
SeqsUpTo(S, n) ==
    IF n = 0 THEN {<< >>}
    ELSE LET shorter == SeqsUpTo(S, n - 1)
         IN  shorter \cup {Append(s, x) : s \in {t \in shorter : Len(t) = n - 1}, x \in S}

ToolNames == {"addShape", "getBoardData", "bogus"}

\* tc.ID: a provider-assigned tool-use id, or empty when the provider sets none
CallIDs == {"", "tu1"}

\* a tool input map: nil, allocated but empty, or carrying arguments
InputKinds == {"nil", "empty", "args"}

\* what a handler invocation does: returns a plain result, returns a map
\* marked _imageContent, returns an error, or panics
HandlerOutcomes == {"ok", "image", "err", "panic"}

ToolCall == [ID : CallIDs, Name : ToolNames, Input : InputKinds]

\* len(tc.Input): both a nil map and an empty map have length 0
InputLen(input) == IF input = "args" THEN 1 ELSE 0

EmptyRegistry == << >>

\* RegisterTool keeping the handler a name already has
RegisterToolKeepingFirst(reg, name, h) ==
    IF name \in DOMAIN reg THEN reg
    ELSE [n \in (DOMAIN reg) \cup {name} |-> IF n = name THEN h ELSE reg[n]]

\* toolHandlers[name] = h
RegisterTool(reg, name, h) ==
    [n \in (DOMAIN reg) \cup {name} |-> IF n = name THEN h ELSE reg[n]]

UnregisterTool(reg, name) ==
    [n \in (DOMAIN reg) \ {name} |-> reg[n]]

\* getToolHandler: the handler and whether one is registered
getToolHandler(reg, name) ==
    IF name \in DOMAIN reg
    THEN [h |-> reg[name], ok |-> TRUE]
    ELSE [h |-> "nil", ok |-> FALSE]

RegisterAllTools ==
    RegisterTool(RegisterTool(EmptyRegistry, "getBoardData", "GetBoardDataHandler"),
                 "addShape", "AddShapeHandler")

\* the goroutines that call the registry functions, the handlers they
\* register, and the calls they make
Goroutines == {"g1", "g2"}

Handlers == {"AddShapeHandler", "GetBoardDataHandler"}

NoOp == [kind |-> "none", name |-> "", h |-> ""]

\* the names they use: one registered at startup, one not
RegistryNames == {"addShape", "bogus"}

RegistryOps ==
    [kind : {"RegisterTool"}, name : RegistryNames, h : Handlers]
       \cup [kind : {"UnregisterTool", "getToolHandler"},
             name : RegistryNames, h : {""}]

NoLookup == [name |-> "", h |-> "nil", ok |-> FALSE]

IsWrite(op) == op.kind \in {"RegisterTool", "UnregisterTool"}

\* no registry call in progress, the mutex free
RegistryIdle ==
    /\ toolHandlersMu = [w |-> FALSE, r |-> 0]
    /\ regPc = [g \in Goroutines |-> "idle"]
    /\ regOp = [g \in Goroutines |-> NoOp]
    /\ regLog = << >>
    /\ regFound = NoLookup

\* a goroutine calls one of the three functions and arrives at the mutex
RegistryCall(g) ==
    /\ regPc[g] = "idle"
    /\ \E op \in RegistryOps :
          /\ IsWrite(op) =>
                Len(regLog) + Cardinality({x \in Goroutines :
                                             regPc[x] # "idle" /\ IsWrite(regOp[x])})
                   < MaxRegOps
          /\ regOp' = [regOp EXCEPT ![g] = op]
    /\ regPc' = [regPc EXCEPT ![g] = "waiting"]
    /\ UNCHANGED <<toolHandlers, toolHandlersMu, regLog, regFound>>
    /\ UNCHANGED <<toolCalls, tcIdx, results, outcomes, etPc>>
    /\ UNCHANGED <<hubVars, loopVars, workflowVars, streamVars, scanVars>>

\* toolHandlersMu.Lock() needs the mutex free, RLock() needs no writer
RegistryLock(g) ==
    /\ regPc[g] = "waiting"
    /\ IF IsWrite(regOp[g])
       THEN /\ ~toolHandlersMu.w
            /\ toolHandlersMu.r = 0
            /\ toolHandlersMu' = [toolHandlersMu EXCEPT !.w = TRUE]
       ELSE /\ ~toolHandlersMu.w
            /\ toolHandlersMu' = [toolHandlersMu EXCEPT !.r = @ + 1]
    /\ regPc' = [regPc EXCEPT ![g] = "locked"]
    /\ UNCHANGED <<toolHandlers, regOp, regLog, regFound>>
    /\ UNCHANGED <<toolCalls, tcIdx, results, outcomes, etPc>>
    /\ UNCHANGED <<hubVars, loopVars, workflowVars, streamVars, scanVars>>

\* toolHandlers[name] = h, or delete(toolHandlers, name), and the deferred
\* Unlock
RegistryWrite(g) ==
    /\ regPc[g] = "locked"
    /\ IsWrite(regOp[g])
    /\ toolHandlers' =
          IF regOp[g].kind = "RegisterTool"
          THEN RegisterTool(toolHandlers, regOp[g].name, regOp[g].h)
          ELSE UnregisterTool(toolHandlers, regOp[g].name)
    /\ toolHandlersMu' = [toolHandlersMu EXCEPT !.w = FALSE]
    /\ regLog' = Append(regLog, regOp[g])
    /\ regPc' = [regPc EXCEPT ![g] = "idle"]
    /\ regOp' = [regOp EXCEPT ![g] = NoOp]
    /\ UNCHANGED regFound
    /\ UNCHANGED <<toolCalls, tcIdx, results, outcomes, etPc>>
    /\ UNCHANGED <<hubVars, loopVars, workflowVars, streamVars, scanVars>>

\* h, ok := toolHandlers[name]; return h, ok, and the deferred RUnlock
RegistryRead(g) ==
    /\ regPc[g] = "locked"
    /\ regOp[g].kind = "getToolHandler"
    /\ regFound' =
          [name |-> regOp[g].name,
           h |-> getToolHandler(toolHandlers, regOp[g].name).h,
           ok |-> getToolHandler(toolHandlers, regOp[g].name).ok]
    /\ toolHandlersMu' = [toolHandlersMu EXCEPT !.r = @ - 1]
    /\ regPc' = [regPc EXCEPT ![g] = "idle"]
    /\ regOp' = [regOp EXCEPT ![g] = NoOp]
    /\ UNCHANGED <<toolHandlers, regLog>>
    /\ UNCHANGED <<toolCalls, tcIdx, results, outcomes, etPc>>
    /\ UNCHANGED <<hubVars, loopVars, workflowVars, streamVars, scanVars>>

\* a nil *ImageContent; a pointer to an ImageContent is a sequence of one
NilImageData == << >>

\* result := ToolExecutionResult{ToolCallID: tc.ID, ToolName: tc.Name}
NewResult(tc) ==
    [ToolCallID |-> tc.ID, ToolName |-> tc.Name, Result |-> "nil",
     Error |-> "nil", HasImage |-> FALSE, ImageData |-> NilImageData]

ErrorResult(tc, err) == [NewResult(tc) EXCEPT !.Error = err]

\* the values a handler returns without error, told apart by what the image
\* test of ExecuteTools sees: the map of AddShapeHandler ("ok", no
\* _imageContent entry), the map of GetBoardDataHandler ("image", the entry
\* true and the format "png"), maps with the entry true and another format,
\* no format, an empty format or a format that is not a string, maps whose
\* entry is false or not a bool, and a value that is not a map
HandlerReturns ==
    {"ok", "image", "imageJpeg", "imageNoFormat", "imageEmptyFormat",
     "imageBadFormat", "flagFalse", "flagNotBool", "notMap"}

\* execResult.(map[string]interface{}) succeeds
IsResultMap(ret) == ret # "notMap"

\* resultMap["_imageContent"]
ImageContentEntry(ret) ==
    CASE ret \in {"image", "imageJpeg", "imageNoFormat", "imageEmptyFormat",
                  "imageBadFormat"} -> "true"
      [] ret = "flagFalse" -> "false"
      [] ret = "flagNotBool" -> "notBool"
      [] OTHER -> "absent"

\* resultMap["format"]
FormatEntry(ret) ==
    CASE ret = "image" -> "png"
      [] ret = "imageJpeg" -> "jpeg"
      [] ret = "imageEmptyFormat" -> ""
      [] ret = "imageBadFormat" -> "notString"
      [] OTHER -> "absent"

\* hasImage, _ := resultMap["_imageContent"].(bool)
HasImageContent(ret) == ImageContentEntry(ret) = "true"

\* format, _ := resultMap["format"].(string)
FormatOf(ret) ==
    IF FormatEntry(ret) \in {"absent", "notString"} THEN ""
    ELSE FormatEntry(ret)

\* mediaType := "image/png"; fmt.Sprintf("image/%s", format) for a format
MediaTypeOf(format) ==
    IF format # "" THEN <<"image", format>> ELSE <<"image", "png">>

\* result.Result = execResult
ResultValue(ret) ==
    CASE ret = "ok" -> "map"
      [] ret = "image" -> "imageMap"
      [] OTHER -> ret

\* SuccessResult giving every image the media type image/png
SuccessResultAlwaysPng(tc, outcome) ==
    IF IsResultMap(outcome) /\ HasImageContent(outcome)
    THEN [NewResult(tc) EXCEPT
             !.Result = ResultValue(outcome),
             !.HasImage = TRUE,
             !.ImageData = <<[Format |-> FormatOf(outcome),
                              MediaType |-> <<"image", "png">>]>>]
    ELSE [NewResult(tc) EXCEPT !.Result = ResultValue(outcome)]

\* the result built after a handler returned without error
SuccessResult(tc, outcome) ==
    IF IsResultMap(outcome) /\ HasImageContent(outcome)
    THEN [NewResult(tc) EXCEPT
             !.Result = ResultValue(outcome),
             !.HasImage = TRUE,
             !.ImageData = <<[Format |-> FormatOf(outcome),
                              MediaType |-> MediaTypeOf(FormatOf(outcome))]>>]
    ELSE [NewResult(tc) EXCEPT !.Result = ResultValue(outcome)]

\* the error a failing handler invocation leaves in handlerErr
HandlerErr(outcome) ==
    IF outcome = "panic" THEN "tool execution panicked" ELSE "handler error"

InExecuteTools == etPc = "exec" /\ tcIdx <= Len(toolCalls)

CurrentCall == toolCalls[tcIdx]

\* results = append(results, result); continue
AppendResult(r, outcome) ==
    /\ results' = Append(results, r)
    /\ outcomes' = Append(outcomes, outcome)
    /\ tcIdx' = tcIdx + 1
    /\ UNCHANGED <<registryVars, toolCalls, etPc>>

\* ExecEmptyInput with the empty call skipped silently (no result appended)
ExecEmptyInputSkipped ==
    /\ InExecuteTools
    /\ InputLen(CurrentCall.Input) = 0
    /\ tcIdx' = tcIdx + 1
    /\ UNCHANGED <<registryVars, toolCalls, results, outcomes, etPc>>
    /\ UNCHANGED <<hubVars, loopVars, workflowVars, streamVars, scanVars>>

\* ExecEmptyInput looking the handler up first and invoking it when the
\* tool is registered
ExecEmptyInputHandled ==
    /\ InExecuteTools
    /\ InputLen(CurrentCall.Input) = 0
    /\ IF getToolHandler(toolHandlers, CurrentCall.Name).ok
       THEN AppendResult(SuccessResult(CurrentCall, "ok"), "ok")
       ELSE AppendResult(ErrorResult(CurrentCall, "tool input was empty"), "none")
    /\ UNCHANGED <<hubVars, loopVars, workflowVars, streamVars, scanVars>>

\* len(tc.Input) == 0: an error result, no handler lookup
ExecEmptyInput ==
    /\ InExecuteTools
    /\ InputLen(CurrentCall.Input) = 0
    /\ AppendResult(ErrorResult(CurrentCall, "tool input was empty"), "none")
    /\ UNCHANGED <<hubVars, loopVars, workflowVars, streamVars, scanVars>>

\* no handler registered under tc.Name
ExecUnknownTool ==
    /\ InExecuteTools
    /\ InputLen(CurrentCall.Input) # 0
    /\ ~getToolHandler(toolHandlers, CurrentCall.Name).ok
    /\ AppendResult(ErrorResult(CurrentCall, "unknown tool"), "none")
    /\ UNCHANGED <<hubVars, loopVars, workflowVars, streamVars, scanVars>>

\* ExecHandlerError without the deferred recover: a panic leaves ExecuteTools
ExecHandlerErrorUnrecovered ==
    /\ InExecuteTools
    /\ InputLen(CurrentCall.Input) # 0
    /\ getToolHandler(toolHandlers, CurrentCall.Name).ok
    /\ \/ /\ AppendResult(ErrorResult(CurrentCall, HandlerErr("err")), "err")
          /\ UNCHANGED <<hubVars, loopVars, workflowVars, streamVars, scanVars>>
       \/ /\ etPc' = "panicked"
          /\ UNCHANGED <<registryVars, toolCalls, tcIdx, results, outcomes>>
          /\ UNCHANGED <<hubVars, loopVars, workflowVars, streamVars, scanVars>>

\* the handler returned an error, or panicked and the deferred recover
\* turned the panic into handlerErr
ExecHandlerError ==
    /\ InExecuteTools
    /\ InputLen(CurrentCall.Input) # 0
    /\ getToolHandler(toolHandlers, CurrentCall.Name).ok
    /\ \E o \in {"err", "panic"} :
          AppendResult(ErrorResult(CurrentCall, HandlerErr(o)), o)
    /\ UNCHANGED <<hubVars, loopVars, workflowVars, streamVars, scanVars>>

\* the handler returned one of the values rets
ExecHandlerReturns(rets) ==
    /\ InExecuteTools
    /\ InputLen(CurrentCall.Input) # 0
    /\ getToolHandler(toolHandlers, CurrentCall.Name).ok
    /\ \E o \in rets :
          AppendResult(SuccessResult(CurrentCall, o), o)
    /\ UNCHANGED <<hubVars, loopVars, workflowVars, streamVars, scanVars>>

\* the handler returned a result: those of the two registered handlers
ExecHandlerSuccess == ExecHandlerReturns({"ok", "image"})

\* the range loop is over: return results
ExecuteToolsReturn ==
    /\ etPc = "exec"
    /\ tcIdx > Len(toolCalls)
    /\ etPc' = "done"
    /\ UNCHANGED <<registryVars, toolCalls, tcIdx, results, outcomes>>
    /\ UNCHANGED <<hubVars, loopVars, workflowVars, streamVars, scanVars>>

ExecuteToolsStep ==
    \/ ExecEmptyInput
    \/ ExecUnknownTool
    \/ ExecHandlerError
    \/ ExecHandlerSuccess
    \/ ExecuteToolsReturn

\* ExecuteTools entered with a batch: results := make([]..., 0, len(toolCalls))
EnterExecuteTools(batch) ==
    /\ toolCalls = batch
    /\ tcIdx = 1
    /\ results = << >>
    /\ outcomes = << >>
    /\ etPc = "exec"

(***************************************************************************)
(* The connection hub and the per-connection goroutines.                    *)
(***************************************************************************)
ClientIds == {"c1", "c2"}

\* envelopes on a client's queue
PongMsg == [type |-> "pong", n |-> 0]

ErrorMsg == [type |-> "error", n |-> 0]

BroadcastMsg == [type |-> "broadcast", n |-> 0]

RunMsg(k) == [type |-> "run", n |-> k]

\* the frames a read loop tells apart: a ping, a frame that is not JSON, a
\* frame with an unknown or missing type, a chat_message without data, a
\* chat_message whose board_id is empty, a chat_message with a board id
ReplyFrameKinds == {"ping", "malformed", "badType", "noPayload", "noBoardId"}

FrameKinds == ReplyFrameKinds \cup {"chat"}

NoFrame == [c |-> "none", kind |-> "none"]

Frame(c, kind) == [c |-> c, kind |-> kind]

\* the envelope the read loop answers a frame with: sendPongMessage for a
\* ping, SendErrorMessage for the other kinds
ReplyTo(kind) == IF kind = "ping" THEN PongMsg ELSE ErrorMsg

\* NewHub, and no connection accepted yet
HubInit ==
    /\ Clients = {}
    /\ Send = [c \in ClientIds |-> << >>]
    /\ chanClosed = [c \in ClientIds |-> FALSE]
    /\ onceDone = [c \in ClientIds |-> FALSE]
    /\ closeCount = [c \in ClientIds |-> 0]
    /\ hubPc = "select"
    /\ bcastMsg = "none"
    /\ bcastTodo = {}
    /\ bcastCur = "none"
    /\ pc = [c \in ClientIds |-> "new"]
    /\ wpc = [c \in ClientIds |-> "none"]
    /\ connClosed = [c \in ClientIds |-> FALSE]
    /\ framesRead = 0
    /\ lastFrame = NoFrame
    /\ runPc = [c \in ClientIds |-> "none"]
    /\ runNext = [c \in ClientIds |-> 1]
    /\ written = [c \in ClientIds |-> << >>]
    /\ bcastCount = 0
    /\ crashed = FALSE

\* client.Send <- message completes: the channel is open and has a free slot
CanSend(c) == ~chanClosed[c] /\ Len(Send[c]) < QueueCap

\* client.Send <- message on a closed channel panics (also when the sender
\* was blocked on a full channel at the time of the close)
SendPanics(c) == chanClosed[c]

\* SendMessage on a queue without capacity limit
SendMessageUnbounded(c, msg) ==
    /\ ~chanClosed[c]
    /\ Send' = [Send EXCEPT ![c] = Append(@, msg)]

\* SendMessage putting the message at the head of the queue
SendMessageAtHead(c, msg) ==
    /\ CanSend(c)
    /\ Send' = [Send EXCEPT ![c] = <<msg>> \o @]

\* hub.SendMessage(client, message): the enqueue
SendMessage(c, msg) ==
    /\ CanSend(c)
    /\ Send' = [Send EXCEPT ![c] = Append(@, msg)]

\* Register rebuilding the registry from the new client alone
RegisterLosingOthers(c) ==
    /\ pc[c] = "new"
    /\ hubPc = "select"
    /\ Clients' = {c}
    /\ pc' = [pc EXCEPT ![c] = "reading"]
    /\ wpc' = [wpc EXCEPT ![c] = "ranging"]
    /\ UNCHANGED <<Send, chanClosed, onceDone, closeCount, hubPc, bcastMsg,
                   bcastTodo, bcastCur, connClosed, framesRead, lastFrame, runPc,
                   runNext, written, bcastCount, crashed>>
    /\ UNCHANGED <<toolVars, loopVars, workflowVars, streamVars, scanVars>>

\* Register accepting a client whose handler has already returned
RegisterReturnedClient(c) ==
    /\ pc[c] \in {"new", "done"}
    /\ hubPc = "select"
    /\ Clients' = Clients \cup {c}
    /\ pc' = [pc EXCEPT ![c] = "reading"]
    /\ wpc' = [wpc EXCEPT ![c] = "ranging"]
    /\ UNCHANGED <<Send, chanClosed, onceDone, closeCount, hubPc, bcastMsg,
                   bcastTodo, bcastCur, connClosed, framesRead, lastFrame, runPc,
                   runNext, written, bcastCount, crashed>>
    /\ UNCHANGED <<toolVars, loopVars, workflowVars, streamVars, scanVars>>

\* case client := <-h.Register, with the sender hub.Register <- client of
\* WebSocketHandler; the handler then starts the write loop
Register(c) ==
    /\ pc[c] = "new"
    /\ hubPc = "select"
    /\ Clients' = Clients \cup {c}
    /\ pc' = [pc EXCEPT ![c] = "reading"]
    /\ wpc' = [wpc EXCEPT ![c] = "ranging"]
    /\ UNCHANGED <<Send, chanClosed, onceDone, closeCount, hubPc, bcastMsg,
                   bcastTodo, bcastCur, connClosed, framesRead, lastFrame, runPc,
                   runNext, written, bcastCount, crashed>>
    /\ UNCHANGED <<toolVars, loopVars, workflowVars, streamVars, scanVars>>

\* HubUnregister closing the queue on every request, without the presence
\* test and the once guard
HubUnregisterUnguarded(c) ==
    /\ hubPc = "select"
    /\ Clients' = Clients \ {c}
    /\ onceDone' = [onceDone EXCEPT ![c] = TRUE]
    /\ chanClosed' = [chanClosed EXCEPT ![c] = TRUE]
    /\ closeCount' = [closeCount EXCEPT ![c] = @ + 1]

\* HubUnregister closing the queue of a client it leaves in the registry
HubUnregisterKeepingClient(c) ==
    /\ hubPc = "select"
    /\ IF c \in Clients /\ ~onceDone[c]
       THEN /\ onceDone' = [onceDone EXCEPT ![c] = TRUE]
            /\ chanClosed' = [chanClosed EXCEPT ![c] = TRUE]
            /\ closeCount' = [closeCount EXCEPT ![c] = @ + 1]
            /\ UNCHANGED Clients
       ELSE /\ Clients' = Clients \ {c}
            /\ UNCHANGED <<chanClosed, closeCount, onceDone>>

\* case client := <-h.Unregister: delete and close once, only if present
HubUnregister(c) ==
    /\ hubPc = "select"
    /\ IF c \in Clients
       THEN /\ Clients' = Clients \ {c}
            /\ IF onceDone[c]
               THEN UNCHANGED <<chanClosed, closeCount, onceDone>>
               ELSE /\ onceDone' = [onceDone EXCEPT ![c] = TRUE]
                    /\ chanClosed' = [chanClosed EXCEPT ![c] = TRUE]
                    /\ closeCount' = [closeCount EXCEPT ![c] = @ + 1]
       ELSE UNCHANGED <<Clients, chanClosed, closeCount, onceDone>>

\* the read loop ended: hub.Unregister <- client; conn.Close()
ReadUnregister(c) ==
    /\ pc[c] = "unreg"
    /\ HubUnregister(c)
    /\ pc' = [pc EXCEPT ![c] = "done"]
    /\ connClosed' = [connClosed EXCEPT ![c] = TRUE]
    /\ UNCHANGED <<Send, hubPc, bcastMsg, bcastTodo, bcastCur, wpc,
                   framesRead, lastFrame, runPc, runNext, written, bcastCount,
                   crashed>>
    /\ UNCHANGED <<toolVars, loopVars, workflowVars, streamVars, scanVars>>

\* the write loop's deferred function: hub.Unregister <- client; conn.Close()
WriteUnregister(c) ==
    /\ wpc[c] = "unreg"
    /\ HubUnregister(c)
    /\ wpc' = [wpc EXCEPT ![c] = "done"]
    /\ connClosed' = [connClosed EXCEPT ![c] = TRUE]
    /\ UNCHANGED <<Send, hubPc, bcastMsg, bcastTodo, bcastCur, pc,
                   framesRead, lastFrame, runPc, runNext, written, bcastCount,
                   crashed>>
    /\ UNCHANGED <<toolVars, loopVars, workflowVars, streamVars, scanVars>>

\* Broadcast ranging over every client, registered or not
BroadcastToEveryClient ==
    /\ hubPc = "select"
    /\ bcastCount < MaxBroadcasts
    /\ bcastCount' = bcastCount + 1
    /\ bcastMsg' = BroadcastMsg
    /\ hubPc' = "broadcast"
    /\ \E c \in ClientIds :
          /\ bcastCur' = c
          /\ bcastTodo' = ClientIds \ {c}
    /\ UNCHANGED <<Clients, Send, chanClosed, onceDone, closeCount, pc, wpc,
                   connClosed, framesRead, lastFrame, runPc, runNext, written,
                   crashed>>
    /\ UNCHANGED <<toolVars, loopVars, workflowVars, streamVars, scanVars>>

\* BroadcastMessage: h.Broadcast <- message, received by Hub.Run, which
\* enters the range over h.Clients
Broadcast ==
    /\ hubPc = "select"
    /\ bcastCount < MaxBroadcasts
    /\ bcastCount' = bcastCount + 1
    /\ bcastMsg' = BroadcastMsg
    /\ IF Clients = {}
       THEN /\ hubPc' = "select"
            /\ bcastTodo' = {}
            /\ bcastCur' = "none"
       ELSE /\ hubPc' = "broadcast"
            /\ \E c \in Clients :
                  /\ bcastCur' = c
                  /\ bcastTodo' = Clients \ {c}
    /\ UNCHANGED <<Clients, Send, chanClosed, onceDone, closeCount, pc, wpc,
                   connClosed, framesRead, lastFrame, runPc, runNext, written,
                   crashed>>
    /\ UNCHANGED <<toolVars, loopVars, workflowVars, streamVars, scanVars>>

\* client.Send <- message inside the broadcast range: a blocking send
BroadcastSend ==
    /\ hubPc = "broadcast"
    /\ SendMessage(bcastCur, bcastMsg)
    /\ IF bcastTodo = {}
       THEN /\ hubPc' = "select"
            /\ bcastCur' = "none"
            /\ bcastTodo' = {}
       ELSE /\ hubPc' = "broadcast"
            /\ \E c \in bcastTodo :
                  /\ bcastCur' = c
                  /\ bcastTodo' = bcastTodo \ {c}
    /\ UNCHANGED <<Clients, chanClosed, onceDone, closeCount, bcastMsg, pc,
                   wpc, connClosed, framesRead, lastFrame, runPc, runNext, written,
                   bcastCount, crashed>>
    /\ UNCHANGED <<toolVars, loopVars, workflowVars, streamVars, scanVars>>

\* for msg := range client.Send { conn.WriteMessage(msg) } : one message
\* received and written; the history keeps the envelopes of runs
WriteLoopWrite(c) ==
    /\ wpc[c] = "ranging"
    /\ Send[c] # << >>
    /\ written' = [written EXCEPT ![c] =
                       IF Head(Send[c]).type = "run"
                       THEN Append(@, Head(Send[c]))
                       ELSE @]
    /\ Send' = [Send EXCEPT ![c] = Tail(@)]
    /\ UNCHANGED <<Clients, chanClosed, onceDone, closeCount, hubPc, bcastMsg,
                   bcastTodo, bcastCur, pc, wpc, connClosed, framesRead, lastFrame,
                   runPc, runNext, bcastCount, crashed>>
    /\ UNCHANGED <<toolVars, loopVars, workflowVars, streamVars, scanVars>>

\* conn.WriteMessage fails: the message is lost and the write loop returns
WriteLoopError(c) ==
    /\ wpc[c] = "ranging"
    /\ Send[c] # << >>
    /\ Send' = [Send EXCEPT ![c] = Tail(@)]
    /\ wpc' = [wpc EXCEPT ![c] = "unreg"]
    /\ UNCHANGED <<Clients, chanClosed, onceDone, closeCount, hubPc, bcastMsg,
                   bcastTodo, bcastCur, pc, connClosed, framesRead, lastFrame, runPc,
                   runNext, written, bcastCount, crashed>>
    /\ UNCHANGED <<toolVars, loopVars, workflowVars, streamVars, scanVars>>

\* the range over client.Send ends: the channel is closed and drained
WriteLoopExit(c) ==
    /\ wpc[c] = "ranging"
    /\ Send[c] = << >>
    /\ chanClosed[c]
    /\ wpc' = [wpc EXCEPT ![c] = "unreg"]
    /\ UNCHANGED <<Clients, Send, chanClosed, onceDone, closeCount, hubPc,
                   bcastMsg, bcastTodo, bcastCur, pc, connClosed, framesRead, lastFrame,
                   runPc, runNext, written, bcastCount, crashed>>
    /\ UNCHANGED <<toolVars, loopVars, workflowVars, streamVars, scanVars>>

\* conn.ReadMessage fails: break out of the read loop
ReadError(c) ==
    /\ pc[c] = "reading"
    /\ pc' = [pc EXCEPT ![c] = "unreg"]
    /\ UNCHANGED <<Clients, Send, chanClosed, onceDone, closeCount, hubPc,
                   bcastMsg, bcastTodo, bcastCur, wpc, connClosed, framesRead, lastFrame,
                   runPc, runNext, written, bcastCount, crashed>>
    /\ UNCHANGED <<toolVars, loopVars, workflowVars, streamVars, scanVars>>

\* the read loop answers a frame on the client's own queue: a pong for a
\* ping, an error envelope for a frame that is malformed, of an unknown
\* type, or a chat_message without payload or board id
ReadReply(c, msg) ==
    /\ pc[c] = "reading"
    /\ ~connClosed[c]
    /\ framesRead < MaxFrames
    /\ framesRead' = framesRead + 1
    /\ SendMessage(c, msg)
    /\ UNCHANGED <<Clients, chanClosed, onceDone, closeCount, hubPc, bcastMsg,
                   bcastTodo, bcastCur, pc, wpc, connClosed, runPc, runNext,
                   written, bcastCount, crashed>>
    /\ UNCHANGED <<toolVars, loopVars, workflowVars, streamVars, scanVars>>

\* ReadPing answering nothing
ReadPingSilent(c) ==
    /\ pc[c] = "reading"
    /\ ~connClosed[c]
    /\ framesRead < MaxFrames
    /\ framesRead' = framesRead + 1
    /\ lastFrame' = Frame(c, "ping")
    /\ UNCHANGED <<Clients, Send, chanClosed, onceDone, closeCount, hubPc,
                   bcastMsg, bcastTodo, bcastCur, pc, wpc, connClosed, runPc,
                   runNext, written, bcastCount, crashed>>
    /\ UNCHANGED <<toolVars, loopVars, workflowVars, streamVars, scanVars>>

\* ReadPing of a read loop that waits for the run it started
ReadPingAfterRun(c) ==
    /\ procPc \notin {"entry", "agent"}
    /\ ReadReply(c, ReplyTo("ping"))
    /\ lastFrame' = Frame(c, "ping")

\* message.Type == "ping": sendPongMessage
ReadPing(c) ==
    /\ ReadReply(c, ReplyTo("ping"))
    /\ lastFrame' = Frame(c, "ping")

\* ReadBadFrame leaving the read loop after the error envelope
ReadBadFrameBreaks(c) ==
    /\ pc[c] = "reading"
    /\ ~connClosed[c]
    /\ framesRead < MaxFrames
    /\ framesRead' = framesRead + 1
    /\ SendMessage(c, ErrorMsg)
    /\ \E kind \in {"malformed", "badType"} : lastFrame' = Frame(c, kind)
    /\ pc' = [pc EXCEPT ![c] = "unreg"]
    /\ UNCHANGED <<Clients, chanClosed, onceDone, closeCount, hubPc, bcastMsg,
                   bcastTodo, bcastCur, wpc, connClosed, runPc, runNext,
                   written, bcastCount, crashed>>
    /\ UNCHANGED <<toolVars, loopVars, workflowVars, streamVars, scanVars>>

\* a frame that does not parse ("Invalid JSON format") or whose type is
\* neither ping nor chat_message ("Type is invalid or not provided")
ReadBadFrame(c) ==
    \E kind \in {"malformed", "badType"} :
       /\ ReadReply(c, ReplyTo(kind))
       /\ lastFrame' = Frame(c, kind)

\* ReadBadChatMessage handing the frame to the processor after the error
ReadBadChatMessageProcessed(c) ==
    /\ pc[c] = "reading"
    /\ ~connClosed[c]
    /\ framesRead < MaxFrames
    /\ runPc[c] = "none"
    /\ framesRead' = framesRead + 1
    /\ SendMessage(c, ErrorMsg)
    /\ \E kind \in {"noPayload", "noBoardId"} : lastFrame' = Frame(c, kind)
    /\ runPc' = [runPc EXCEPT ![c] = "running"]
    /\ UNCHANGED <<Clients, chanClosed, onceDone, closeCount, hubPc, bcastMsg,
                   bcastTodo, bcastCur, pc, wpc, connClosed, runNext,
                   written, bcastCount, crashed>>
    /\ UNCHANGED <<toolVars, loopVars, workflowVars, streamVars, scanVars>>

\* a chat_message frame without payload ("Chat message payload is required")
\* or whose board id is empty ("Board ID is required"): continue
ReadBadChatMessage(c) ==
    \E kind \in {"noPayload", "noBoardId"} :
       /\ ReadReply(c, ReplyTo(kind))
       /\ lastFrame' = Frame(c, kind)

\* the reply of the read loop hits a closed queue: the handler panics; the
\* websocket library may recover the panic of a handler or let it end the
\* process
ReadReplyPanic(c) ==
    /\ pc[c] = "reading"
    /\ ~connClosed[c]
    /\ framesRead < MaxFrames
    /\ SendPanics(c)
    /\ framesRead' = framesRead + 1
    /\ \E kind \in ReplyFrameKinds : lastFrame' = Frame(c, kind)
    /\ pc' = [pc EXCEPT ![c] = "panicked"]
    /\ crashed' \in BOOLEAN
    /\ UNCHANGED <<Clients, Send, chanClosed, onceDone, closeCount, hubPc,
                   bcastMsg, bcastTodo, bcastCur, wpc, connClosed, runPc,
                   runNext, written, bcastCount>>
    /\ UNCHANGED <<toolVars, loopVars, workflowVars, streamVars, scanVars>>

\* a chat_message frame with a board id: go processor.ProcessChatMessage(...)
ReadChatMessage(c) ==
    /\ pc[c] = "reading"
    /\ ~connClosed[c]
    /\ framesRead < MaxFrames
    /\ Cardinality({d \in ClientIds : runPc[d] # "none"}) < MaxRuns
    /\ runPc[c] = "none"
    /\ framesRead' = framesRead + 1
    /\ lastFrame' = Frame(c, "chat")
    /\ runPc' = [runPc EXCEPT ![c] = "running"]
    /\ UNCHANGED <<Clients, Send, chanClosed, onceDone, closeCount, hubPc,
                   bcastMsg, bcastTodo, bcastCur, pc, wpc, connClosed,
                   runNext, written, bcastCount, crashed>>
    /\ UNCHANGED <<toolVars, loopVars, workflowVars, streamVars, scanVars>>

\* the run sends its next envelope to its client (chat_starting, the
\* chat_response chunks, chat_completed)
RunSend(c) ==
    /\ runPc[c] = "running"
    /\ runNext[c] <= MaxRunMsgs
    /\ SendMessage(c, RunMsg(runNext[c]))
    /\ runNext' = [runNext EXCEPT ![c] = @ + 1]
    /\ UNCHANGED <<Clients, chanClosed, onceDone, closeCount, hubPc, bcastMsg,
                   bcastTodo, bcastCur, pc, wpc, connClosed, framesRead, lastFrame,
                   runPc, written, bcastCount, crashed>>
    /\ UNCHANGED <<toolVars, loopVars, workflowVars, streamVars, scanVars>>

\* the run's send hits a closed queue: the panic is not recovered in the
\* run's goroutine and ends the process
RunSendPanic(c) ==
    /\ runPc[c] = "running"
    /\ runNext[c] <= MaxRunMsgs
    /\ SendPanics(c)
    /\ runPc' = [runPc EXCEPT ![c] = "panicked"]
    /\ crashed' = TRUE
    /\ UNCHANGED <<Clients, Send, chanClosed, onceDone, closeCount, hubPc,
                   bcastMsg, bcastTodo, bcastCur, pc, wpc, connClosed,
                   framesRead, lastFrame, runNext, written, bcastCount>>
    /\ UNCHANGED <<toolVars, loopVars, workflowVars, streamVars, scanVars>>

\* ProcessChatMessage returns
RunFinish(c) ==
    /\ runPc[c] = "running"
    /\ runNext[c] > MaxRunMsgs
    /\ runPc' = [runPc EXCEPT ![c] = "finished"]
    /\ UNCHANGED <<Clients, Send, chanClosed, onceDone, closeCount, hubPc,
                   bcastMsg, bcastTodo, bcastCur, pc, wpc, connClosed,
                   framesRead, lastFrame, runNext, written, bcastCount, crashed>>
    /\ UNCHANGED <<toolVars, loopVars, workflowVars, streamVars, scanVars>>

HubNext ==
    /\ ~crashed
    /\ \/ \E c \in ClientIds : Register(c)
       \/ \E c \in ClientIds : ReadUnregister(c)
       \/ \E c \in ClientIds : WriteUnregister(c)
       \/ Broadcast
       \/ BroadcastSend
       \/ \E c \in ClientIds : WriteLoopWrite(c)
       \/ \E c \in ClientIds : WriteLoopError(c)
       \/ \E c \in ClientIds : WriteLoopExit(c)
       \/ \E c \in ClientIds : ReadError(c)
       \/ \E c \in ClientIds : ReadPing(c)
       \/ \E c \in ClientIds : ReadBadFrame(c)
       \/ \E c \in ClientIds : ReadBadChatMessage(c)
       \/ \E c \in ClientIds : ReadReplyPanic(c)
       \/ \E c \in ClientIds : ReadChatMessage(c)
       \/ \E c \in ClientIds : RunSend(c)
       \/ \E c \in ClientIds : RunSendPanic(c)
       \/ \E c \in ClientIds : RunFinish(c)

\* no TriggerChatWorkflow request in progress, no chat rows
WorkflowIdle ==
    /\ triggerPc = "idle"
    /\ chats = << >>
    /\ txRows = << >>
    /\ aiResponse = ""
    /\ status = 0

StreamRuns == {"r1", "r2"}

\* the addresses of StreamingContext objects: a run refers to two at most
CtxIds == 1..(2 * Cardinality(StreamRuns))

\* a StreamingContext no run has written
NoContext == [Client |-> "none", BufferedChunks |-> << >>, ShouldStream |-> FALSE]

\* StreamClaudeWithMessages is not being called
NoScan ==
    /\ scanPc = "idle"
    /\ scanned = 0
    /\ announced = << >>
    /\ currentToolUseBuilders = << >>
    /\ ToolUses = << >>

\* no streaming run exists
NoStreamRuns ==
    /\ NoScan
    /\ contexts = << >>
    /\ streamCtx = << >>
    /\ currentStreamCtx = << >>
    /\ streamPc = << >>
    /\ streamIter = << >>
    /\ flushPos = << >>
    /\ flushed = << >>

\* the runs exist and none has entered ChatStream
StreamIdle ==
    /\ NoScan
    /\ contexts = [i \in CtxIds |-> NoContext]
    /\ streamCtx = [r \in StreamRuns |-> 0]
    /\ currentStreamCtx = [r \in StreamRuns |-> 0]
    /\ streamPc = [r \in StreamRuns |-> "idle"]
    /\ streamIter = [r \in StreamRuns |-> 0]
    /\ flushPos = [r \in StreamRuns |-> 1]
    /\ flushed = [r \in StreamRuns |-> << >>]

\* no goroutine other than the runs calls the registry functions
NoRegistryCallers ==
    /\ toolHandlersMu = [w |-> FALSE, r |-> 0]
    /\ regPc = << >>
    /\ regOp = << >>
    /\ regLog = << >>
    /\ regFound = NoLookup

\* ExecuteTools is not running
NoToolBatch ==
    /\ toolCalls = << >>
    /\ tcIdx = 1
    /\ results = << >>
    /\ outcomes = << >>
    /\ etPc = "idle"

\* no tool batch in progress, the registry as init() leaves it
ToolsIdle ==
    /\ toolHandlers = RegisterAllTools
    /\ NoRegistryCallers
    /\ NoToolBatch

(***************************************************************************)
(* The ChatWithTools loops.                                                 *)
(***************************************************************************)
Providers == {"anthropic", "langchain", "gemini"}

\* the client a streaming run sends to
target == "c1"

maxIterations(p) ==
    IF p = "anthropic" THEN AnthropicMaxIterations
    ELSE IF p = "langchain" THEN LangChainMaxIterations
    ELSE GeminiMaxIterations

ChunkMsg(n) == [type |-> "chat_response", n |-> n]

ShapeMsg == [type |-> "shape_created", n |-> 0]

StartingMsg == [type |-> "chat_starting", n |-> 0]

\* the chat_completed envelope; n tells whether its message is non-empty
CompletedMsg(text) ==
    [type |-> "chat_completed", n |-> IF text = "" THEN 0 ELSE 1]

\* the ToolCall the loop builds from a tool use of the response: Anthropic
\* keeps the id of the tool use, LangChain and Gemini set ID to ""
LoopCalls(p) ==
    {tc \in ToolCall :
        /\ tc.ID = (IF p = "anthropic" THEN "tu1" ELSE "")
        /\ \/ tc.Name = "addShape" /\ tc.Input \in {"empty", "args"}
           \/ tc.Name = "bogus" /\ tc.Input = "args"}

\* a block of a turn's content: the tool-use id, the tool name, the kind of
\* block and the input of a call ("" where the block has no such field)
Block(id, name, kind, input) ==
    [id |-> id, name |-> name, kind |-> kind, input |-> input]

Turn(role, kind, items) == [role |-> role, kind |-> kind, items |-> items]

\* messages as ProcessRequestStream builds them: the user's message (the
\* chat history before it is left out)
InitialMessages == <<Turn("user", "text", << >>)>>

\* the tool_result block of a result: an error text with is_error, a text
\* and an image block as content, or the result as a string
FormatAnthropicToolResult(r) ==
    IF r.Error # "nil" THEN Block(r.ToolCallID, "", "error", "")
    ELSE IF r.HasImage /\ r.ImageData # NilImageData
    THEN Block(r.ToolCallID, "", "image", "")
    ELSE Block(r.ToolCallID, "", "text", "")

\* the function_response of a result, named by the tool (no id), and the
\* image blocks to add separately: a text block and an image block
FormatLangChainToolResult(r) ==
    IF r.Error # "nil"
    THEN [functionResponse |-> Block("", r.ToolName, "error", ""),
          imageBlocks |-> << >>]
    ELSE IF r.HasImage /\ r.ImageData # NilImageData
    THEN [functionResponse |-> Block("", r.ToolName, "metadata", ""),
          imageBlocks |-> <<Block("", "", "text", ""),
                          Block("", "", "image", "")>>]
    ELSE [functionResponse |-> Block("", r.ToolName, "json", ""),
          imageBlocks |-> << >>]

\* FormatGeminiToolResult has the body of FormatLangChainToolResult
FormatGeminiToolResult(r) == FormatLangChainToolResult(r)

\* imageContentBlocks = append(imageContentBlocks, imgBlocks...) over the
\* results, in order
RECURSIVE ImageContentBlocks(_)
ImageContentBlocks(rs) ==
    IF rs = << >> THEN << >>
    ELSE FormatLangChainToolResult(Head(rs)).imageBlocks
            \o ImageContentBlocks(Tail(rs))

\* the assistant turn of a tool-calling response: one tool_use block per
\* tool use (Anthropic, with its id) or one function_call block per
\* function call (LangChain, Gemini); the text blocks before them are left
\* out
AssistantTurn(p, calls) ==
    Turn("assistant", "tool_calls",
         [k \in DOMAIN calls |->
             Block(IF p = "anthropic" THEN calls[k].ID ELSE "",
                   calls[k].Name, "call", calls[k].Input)])

\* NewTurns leaving the failed results out of the tool-result turn
NewTurnsWithoutFailed(p, calls, rs) ==
    LET Succeeded(b) == b.kind # "error"
    IN  <<AssistantTurn(p, calls),
          Turn("user", "tool_results",
               SelectSeq([k \in DOMAIN rs |->
                             IF p = "anthropic"
                             THEN FormatAnthropicToolResult(rs[k])
                             ELSE FormatLangChainToolResult(rs[k]).functionResponse],
                         Succeeded))>>
        \o (IF p # "anthropic" /\ Len(ImageContentBlocks(rs)) > 0
            THEN <<Turn("user", "image", ImageContentBlocks(rs))>>
            ELSE << >>)

\* NewTurns putting the images into the tool-result turn itself
NewTurnsImageInline(p, calls, rs) ==
    <<AssistantTurn(p, calls),
      Turn("user", "tool_results",
           [k \in DOMAIN rs |->
               IF p = "anthropic" THEN FormatAnthropicToolResult(rs[k])
               ELSE FormatLangChainToolResult(rs[k]).functionResponse])>>

\* the turns one iteration appends to workingMessages
NewTurns(p, calls, rs) ==
    IF p = "anthropic"
    THEN <<AssistantTurn(p, calls),
           Turn("user", "tool_results",
                [k \in DOMAIN rs |-> FormatAnthropicToolResult(rs[k])])>>
    ELSE <<AssistantTurn(p, calls),
           Turn("user", "tool_results",
                [k \in DOMAIN rs |->
                    (IF p = "gemini" THEN FormatGeminiToolResult(rs[k])
                     ELSE FormatLangChainToolResult(rs[k])).functionResponse])>>
         \o (IF Len(ImageContentBlocks(rs)) > 0
             THEN <<Turn("user", "image", ImageContentBlocks(rs))>>
             ELSE << >>)

LoopIdle ==
    /\ provider = "anthropic"
    /\ streaming = FALSE
    /\ toolsConfigured = TRUE
    /\ loopPc = "idle"
    /\ iter = 0
    /\ modelCalls = 0
    /\ lastResp = 0
    /\ retResp = 0
    /\ retErr = "nil"
    /\ BufferedChunks = << >>
    /\ ShouldStream = FALSE
    /\ flushIdx = 1
    /\ chunkKind = << >>
    /\ callHadTools = << >>
    /\ sentChunks = << >>
    /\ shapesSent = 0
    /\ trackTurns = FALSE
    /\ procPc = "none"
    /\ workingMessages = << >>
    /\ runSent = << >>

\* ChatWithTools entered: iter := 0, lastResp := nil.  The Gemini loop takes
\* no StreamingContext.
LoopEntered ==
    /\ provider \in Providers
    /\ streaming \in BOOLEAN
    /\ provider = "gemini" => ~streaming
    /\ toolsConfigured \in BOOLEAN
    /\ provider # "langchain" => toolsConfigured
    /\ loopPc = "top"
    /\ iter = 0
    /\ modelCalls = 0
    /\ lastResp = 0
    /\ retResp = 0
    /\ retErr = "nil"
    /\ BufferedChunks = << >>
    /\ ShouldStream = FALSE
    /\ flushIdx = 1
    /\ chunkKind = << >>
    /\ callHadTools = << >>
    /\ sentChunks = << >>
    /\ shapesSent = 0
    /\ trackTurns = FALSE
    /\ procPc = "none"
    /\ workingMessages = InitialMessages
    /\ runSent = << >>

\* ModelCallStart with the loop condition iter <= maxIterations
ModelCallStartOffByOne ==
    /\ loopPc = "top"
    /\ iter <= maxIterations(provider)
    /\ modelCalls' = modelCalls + 1
    /\ loopPc' = "model"
    /\ IF provider = "langchain" /\ streaming
       THEN /\ BufferedChunks' = << >>
            /\ ShouldStream' = FALSE
       ELSE UNCHANGED <<BufferedChunks, ShouldStream>>
    /\ UNCHANGED <<provider, streaming, toolsConfigured, trackTurns,
                   procPc, workingMessages, runSent, iter, lastResp,
                   retResp, retErr, flushIdx, chunkKind, callHadTools,
                   sentChunks, shapesSent>>
    /\ UNCHANGED <<toolVars, hubVars, workflowVars, streamVars, scanVars>>

\* ModelCallStart reusing the StreamingContext of the previous iteration
ModelCallStartStaleBuffer ==
    /\ loopPc = "top"
    /\ iter < maxIterations(provider)
    /\ modelCalls' = modelCalls + 1
    /\ loopPc' = "model"
    /\ UNCHANGED <<BufferedChunks, ShouldStream>>
    /\ UNCHANGED <<provider, streaming, toolsConfigured, trackTurns,
                   procPc, workingMessages, runSent, iter, lastResp,
                   retResp, retErr, flushIdx, chunkKind, callHadTools,
                   sentChunks, shapesSent>>
    /\ UNCHANGED <<toolVars, hubVars, workflowVars, streamVars, scanVars>>

\* iter < maxIterations: the iteration starts its backend call.  LangChain
\* first builds a fresh StreamingContext for the iteration.
ModelCallStart ==
    /\ loopPc = "top"
    /\ iter < maxIterations(provider)
    /\ modelCalls' = modelCalls + 1
    /\ loopPc' = "model"
    /\ IF provider = "langchain" /\ streaming
       THEN /\ BufferedChunks' = << >>
            /\ ShouldStream' = FALSE
       ELSE UNCHANGED <<BufferedChunks, ShouldStream>>
    /\ UNCHANGED <<provider, streaming, toolsConfigured, trackTurns,
                   procPc, workingMessages, runSent, iter, lastResp,
                   retResp, retErr, flushIdx, chunkKind, callHadTools,
                   sentChunks, shapesSent>>
    /\ UNCHANGED <<toolVars, hubVars, workflowVars, streamVars, scanVars>>

\* LoopExhausted returning a nil response with the max-iterations error
LoopExhaustedReturnsNil ==
    /\ loopPc = "top"
    /\ ~(iter < maxIterations(provider))
    /\ loopPc' = "returned"
    /\ retResp' = 0
    /\ retErr' = "max iterations"
    /\ UNCHANGED <<provider, streaming, toolsConfigured, trackTurns,
                   procPc, workingMessages, runSent, iter, modelCalls,
                   lastResp, BufferedChunks, ShouldStream, flushIdx,
                   chunkKind, callHadTools, sentChunks, shapesSent>>
    /\ UNCHANGED <<toolVars, hubVars, workflowVars, streamVars, scanVars>>

\* the loop condition fails: return lastResp and the max-iterations error
LoopExhausted ==
    /\ loopPc = "top"
    /\ ~(iter < maxIterations(provider))
    /\ loopPc' = "returned"
    /\ retResp' = lastResp
    /\ retErr' = "max iterations"
    /\ UNCHANGED <<provider, streaming, toolsConfigured, trackTurns,
                   procPc, workingMessages, runSent, iter, modelCalls,
                   lastResp, BufferedChunks, ShouldStream, flushIdx,
                   chunkKind, callHadTools, sentChunks, shapesSent>>
    /\ UNCHANGED <<toolVars, hubVars, workflowVars, streamVars, scanVars>>

\* the backend call delivers text chunks through a callback: the streaming
\* Anthropic call (text_delta events) and the LangChain call with tools
DeliversChunks ==
    /\ loopPc = "model"
    /\ streaming
    /\ \/ provider = "anthropic"
       \/ provider = "langchain" /\ toolsConfigured
    /\ Len(chunkKind) < MaxChunks

NextChunk == Len(chunkKind) + 1

\* the backend call returned: its chunks are those of a tool-calling or of
\* a final response
Settle(kinds, k) ==
    [n \in DOMAIN kinds |-> IF kinds[n] = "pending" THEN k ELSE kinds[n]]

\* callLangChainWithMessages.streamingFunc with ShouldStream false, the only
\* value ChatWithTools gives it: the chunk is appended to BufferedChunks
LangChainChunkBuffered ==
    /\ DeliversChunks
    /\ provider = "langchain"
    /\ ~ShouldStream
    /\ chunkKind' = Append(chunkKind, "pending")
    /\ BufferedChunks' = Append(BufferedChunks, NextChunk)
    /\ UNCHANGED <<provider, streaming, toolsConfigured, trackTurns,
                   procPc, workingMessages, runSent, loopPc, iter,
                   modelCalls, lastResp, retResp, retErr, ShouldStream,
                   flushIdx, callHadTools, sentChunks, shapesSent>>
    /\ UNCHANGED <<toolVars, hubVars, workflowVars, streamVars, scanVars>>

\* StreamClaudeWithMessages on a text_delta: SendChatMessageResponse at once
AnthropicChunkSent ==
    /\ DeliversChunks
    /\ provider = "anthropic"
    /\ SendMessage(target, ChunkMsg(NextChunk))
    /\ runSent' = Append(runSent, ChunkMsg(NextChunk))
    /\ chunkKind' = Append(chunkKind, "pending")
    /\ sentChunks' = Append(sentChunks, NextChunk)
    /\ UNCHANGED <<provider, streaming, toolsConfigured, trackTurns,
                   procPc, workingMessages, loopPc, iter,
                   modelCalls, lastResp, retResp, retErr, BufferedChunks,
                   ShouldStream, flushIdx, callHadTools, shapesSent>>
    /\ UNCHANGED <<toolVars, workflowVars, streamVars, scanVars>>
    /\ UNCHANGED <<Clients, chanClosed, onceDone, closeCount, hubPc, bcastMsg,
                   bcastTodo, bcastCur, pc, wpc, connClosed, framesRead, lastFrame,
                   runPc, runNext, written, bcastCount, crashed>>

\* a send of the run itself hits the closed queue of its client: the panic
\* leaves ChatWithTools and ends the process
LoopSendPanic ==
    /\ \/ DeliversChunks /\ provider = "anthropic"
       \/ loopPc = "flush" /\ flushIdx <= Len(BufferedChunks)
    /\ SendPanics(target)
    /\ loopPc' = "panicked"
    /\ crashed' = TRUE
    /\ UNCHANGED <<provider, streaming, toolsConfigured, trackTurns,
                   procPc, workingMessages, runSent, iter, modelCalls,
                   lastResp, retResp, retErr, BufferedChunks, ShouldStream,
                   flushIdx, chunkKind, callHadTools, sentChunks, shapesSent>>
    /\ UNCHANGED <<toolVars, workflowVars, streamVars, scanVars>>
    /\ UNCHANGED <<Clients, Send, chanClosed, onceDone, closeCount, hubPc,
                   bcastMsg, bcastTodo, bcastCur, pc, wpc, connClosed,
                   framesRead, lastFrame, runPc, runNext, written, bcastCount>>

\* ModelError returning the response of the previous iteration with the error
ModelErrorReturnsLast ==
    /\ loopPc = "model"
    /\ loopPc' = "returned"
    /\ retResp' = lastResp
    /\ retErr' = "backend"
    /\ UNCHANGED <<provider, streaming, toolsConfigured, trackTurns,
                   procPc, workingMessages, runSent, iter, modelCalls,
                   lastResp, BufferedChunks, ShouldStream, flushIdx,
                   chunkKind, callHadTools, sentChunks, shapesSent>>
    /\ UNCHANGED <<toolVars, hubVars, workflowVars, streamVars, scanVars>>

\* the backend call fails: return nil and the error
ModelError ==
    /\ loopPc = "model"
    /\ loopPc' = "returned"
    /\ retResp' = 0
    /\ retErr' = "backend"
    /\ UNCHANGED <<provider, streaming, toolsConfigured, trackTurns,
                   procPc, workingMessages, runSent, iter, modelCalls,
                   lastResp, BufferedChunks, ShouldStream, flushIdx,
                   chunkKind, callHadTools, sentChunks, shapesSent>>
    /\ UNCHANGED <<toolVars, hubVars, workflowVars, streamVars, scanVars>>

\* ModelReturnsFinal appending the response as an assistant turn
ModelReturnsFinalAppending ==
    /\ loopPc = "model"
    /\ lastResp' = modelCalls
    /\ callHadTools' = Append(callHadTools, FALSE)
    /\ IF provider = "langchain" /\ streaming /\ Len(BufferedChunks) > 0
       THEN /\ loopPc' = "flush"
            /\ flushIdx' = 1
            /\ UNCHANGED <<retResp, retErr>>
       ELSE /\ loopPc' = "returned"
            /\ retResp' = modelCalls
            /\ retErr' = "nil"
            /\ UNCHANGED flushIdx
    /\ chunkKind' = Settle(chunkKind, "final")
    /\ workingMessages' =
          Append(workingMessages, Turn("assistant", "text", << >>))
    /\ UNCHANGED <<provider, streaming, toolsConfigured, trackTurns,
                   procPc, runSent, iter, modelCalls,
                   BufferedChunks, ShouldStream, sentChunks, shapesSent>>
    /\ UNCHANGED <<toolVars, hubVars, workflowVars, streamVars, scanVars>>

\* the backend call returns a response without tool calls: Anthropic and
\* Gemini return it; LangChain first sends the buffered chunks
ModelReturnsFinal ==
    /\ loopPc = "model"
    /\ lastResp' = modelCalls
    /\ callHadTools' = Append(callHadTools, FALSE)
    /\ IF provider = "langchain" /\ streaming /\ Len(BufferedChunks) > 0
       THEN /\ loopPc' = "flush"
            /\ flushIdx' = 1
            /\ UNCHANGED <<retResp, retErr>>
       ELSE /\ loopPc' = "returned"
            /\ retResp' = modelCalls
            /\ retErr' = "nil"
            /\ UNCHANGED flushIdx
    /\ chunkKind' = Settle(chunkKind, "final")
    /\ UNCHANGED <<provider, streaming, toolsConfigured, trackTurns,
                   procPc, workingMessages, runSent, iter, modelCalls,
                   BufferedChunks, ShouldStream, sentChunks, shapesSent>>
    /\ UNCHANGED <<toolVars, hubVars, workflowVars, streamVars, scanVars>>

\* ModelReturnsTools leaving out ExecuteTools for the response of the last
\* iteration the budget allows
ModelReturnsToolsSkippingLast ==
    /\ loopPc = "model"
    /\ trackTurns => Len(callHadTools) < MaxToolRounds
    /\ lastResp' = modelCalls
    /\ callHadTools' = Append(callHadTools, TRUE)
    /\ chunkKind' = Settle(chunkKind, "tool")
    /\ IF iter + 1 < maxIterations(provider)
       THEN /\ \E batch \in SeqsUpTo(LoopCalls(provider),
                                     IF trackTurns THEN MaxConvCalls
                                     ELSE MaxRespCalls) \ {<< >>} :
                  /\ toolCalls' = batch
                  /\ tcIdx' = 1
                  /\ results' = << >>
                  /\ outcomes' = << >>
                  /\ etPc' = "exec"
            /\ loopPc' = "tools"
            /\ UNCHANGED iter
       ELSE /\ loopPc' = "top"
            /\ iter' = iter + 1
            /\ UNCHANGED <<toolCalls, tcIdx, results, outcomes, etPc>>
    /\ UNCHANGED <<registryVars, workflowVars, streamVars, scanVars>>
    /\ UNCHANGED <<provider, streaming, toolsConfigured, trackTurns,
                   procPc, workingMessages, runSent, modelCalls,
                   retResp, retErr, BufferedChunks, ShouldStream, flushIdx,
                   sentChunks, shapesSent>>
    /\ UNCHANGED hubVars

\* ModelReturnsTools sending the first buffered chunk of the call before the
\* tools run
ModelReturnsToolsFlushing ==
    /\ loopPc = "model"
    /\ trackTurns => Len(callHadTools) < MaxToolRounds
    /\ \E batch \in SeqsUpTo(LoopCalls(provider),
                             IF trackTurns THEN MaxConvCalls
                             ELSE MaxRespCalls) \ {<< >>} :
          /\ toolCalls' = batch
          /\ tcIdx' = 1
          /\ results' = << >>
          /\ outcomes' = << >>
          /\ etPc' = "exec"
    /\ lastResp' = modelCalls
    /\ callHadTools' = Append(callHadTools, TRUE)
    /\ loopPc' = "tools"
    /\ UNCHANGED <<registryVars, workflowVars, streamVars, scanVars>>
    /\ chunkKind' = Settle(chunkKind, "tool")
    /\ IF Len(BufferedChunks) > 0
       THEN /\ SendMessage(target, ChunkMsg(BufferedChunks[1]))
            /\ runSent' = Append(runSent, ChunkMsg(BufferedChunks[1]))
       ELSE UNCHANGED <<Send, runSent>>
    /\ UNCHANGED <<provider, streaming, toolsConfigured, trackTurns,
                   procPc, workingMessages, iter, modelCalls,
                   retResp, retErr, BufferedChunks, ShouldStream, flushIdx,
                   sentChunks, shapesSent>>
    /\ UNCHANGED <<Clients, chanClosed, onceDone, closeCount, hubPc, bcastMsg,
                   bcastTodo, bcastCur, pc, wpc, connClosed, framesRead,
                   lastFrame, runPc, runNext, written, bcastCount, crashed>>

\* the backend call returns a response with tool calls: they are converted
\* to ToolCalls and handed to ExecuteTools
ModelReturnsTools ==
    /\ loopPc = "model"
    /\ trackTurns => Len(callHadTools) < MaxToolRounds
    /\ \E batch \in SeqsUpTo(LoopCalls(provider),
                             IF trackTurns THEN MaxConvCalls
                             ELSE MaxRespCalls) \ {<< >>} :
          /\ toolCalls' = batch
          /\ tcIdx' = 1
          /\ results' = << >>
          /\ outcomes' = << >>
          /\ etPc' = "exec"
    /\ lastResp' = modelCalls
    /\ callHadTools' = Append(callHadTools, TRUE)
    /\ loopPc' = "tools"
    /\ UNCHANGED <<registryVars, workflowVars, streamVars, scanVars>>
    /\ chunkKind' = Settle(chunkKind, "tool")
    /\ UNCHANGED <<provider, streaming, toolsConfigured, trackTurns,
                   procPc, workingMessages, runSent, iter, modelCalls,
                   retResp, retErr, BufferedChunks, ShouldStream, flushIdx,
                   sentChunks, shapesSent>>
    /\ UNCHANGED hubVars

\* the range over BufferedChunks: one buffered chunk sent as chat_response
FlushChunk ==
    /\ loopPc = "flush"
    /\ flushIdx <= Len(BufferedChunks)
    /\ SendMessage(target, ChunkMsg(BufferedChunks[flushIdx]))
    /\ runSent' = Append(runSent, ChunkMsg(BufferedChunks[flushIdx]))
    /\ sentChunks' = Append(sentChunks, BufferedChunks[flushIdx])
    /\ flushIdx' = flushIdx + 1
    /\ UNCHANGED <<provider, streaming, toolsConfigured, trackTurns,
                   procPc, workingMessages, loopPc, iter,
                   modelCalls, lastResp, retResp, retErr, BufferedChunks,
                   ShouldStream, chunkKind, callHadTools, shapesSent>>
    /\ UNCHANGED <<toolVars, workflowVars, streamVars, scanVars>>
    /\ UNCHANGED <<Clients, chanClosed, onceDone, closeCount, hubPc, bcastMsg,
                   bcastTodo, bcastCur, pc, wpc, connClosed, framesRead, lastFrame,
                   runPc, runNext, written, bcastCount, crashed>>

\* all buffered chunks are sent: return lr, nil
FlushDone ==
    /\ loopPc = "flush"
    /\ flushIdx > Len(BufferedChunks)
    /\ loopPc' = "returned"
    /\ retResp' = lastResp
    /\ retErr' = "nil"
    /\ UNCHANGED <<provider, streaming, toolsConfigured, trackTurns,
                   procPc, workingMessages, runSent, iter, modelCalls,
                   lastResp, BufferedChunks, ShouldStream, flushIdx,
                   chunkKind, callHadTools, sentChunks, shapesSent>>
    /\ UNCHANGED <<toolVars, hubVars, workflowVars, streamVars, scanVars>>

\* AddShapeHandler with a StreamingContext: SendShapeCreatedMessage to the
\* client, then a success result
ExecHandlerEmitShape ==
    /\ loopPc = "tools"
    /\ streaming
    /\ InExecuteTools
    /\ InputLen(CurrentCall.Input) # 0
    /\ getToolHandler(toolHandlers, CurrentCall.Name).ok
    /\ getToolHandler(toolHandlers, CurrentCall.Name).h = "AddShapeHandler"
    /\ shapesSent < MaxShapes
    /\ SendMessage(target, ShapeMsg)
    /\ runSent' = Append(runSent, ShapeMsg)
    /\ shapesSent' = shapesSent + 1
    /\ AppendResult(SuccessResult(CurrentCall, "ok"), "ok")
    /\ UNCHANGED <<provider, streaming, toolsConfigured, trackTurns,
                   procPc, workingMessages, loopPc, iter,
                   modelCalls, lastResp, retResp, retErr, BufferedChunks,
                   ShouldStream, flushIdx, chunkKind, callHadTools,
                   sentChunks>>
    /\ UNCHANGED <<Clients, chanClosed, onceDone, closeCount, hubPc, bcastMsg,
                   bcastTodo, bcastCur, pc, wpc, connClosed, framesRead, lastFrame,
                   runPc, runNext, written, bcastCount, crashed>>
    /\ UNCHANGED <<workflowVars, streamVars, scanVars>>

\* ToolsDone keeping only the turns of the last iteration
ToolsDoneRewriting ==
    /\ loopPc = "tools"
    /\ etPc = "done"
    /\ workingMessages' =
          IF trackTurns
          THEN NewTurns(provider, toolCalls, results)
          ELSE workingMessages
    /\ iter' = iter + 1
    /\ loopPc' = "top"
    /\ etPc' = "idle"
    /\ toolCalls' = << >>
    /\ tcIdx' = 1
    /\ results' = << >>
    /\ outcomes' = << >>
    /\ UNCHANGED <<registryVars, workflowVars, streamVars, scanVars>>
    /\ UNCHANGED <<provider, streaming, toolsConfigured, trackTurns,
                   procPc, runSent, modelCalls, lastResp,
                   retResp, retErr, BufferedChunks, ShouldStream, flushIdx,
                   chunkKind, callHadTools, sentChunks, shapesSent>>
    /\ UNCHANGED hubVars

\* ToolsDone returning an error from the loop when a result carries an error
ToolsDoneAbortsOnError ==
    /\ loopPc = "tools"
    /\ etPc = "done"
    /\ IF \E k \in DOMAIN results : results[k].Error # "nil"
       THEN /\ loopPc' = "returned"
            /\ retResp' = 0
            /\ retErr' = "tool error"
            /\ UNCHANGED <<workingMessages, iter>>
       ELSE /\ loopPc' = "top"
            /\ iter' = iter + 1
            /\ workingMessages' =
                  IF trackTurns
                  THEN workingMessages \o NewTurns(provider, toolCalls, results)
                  ELSE workingMessages
            /\ UNCHANGED <<retResp, retErr>>
    /\ etPc' = "idle"
    /\ toolCalls' = << >>
    /\ tcIdx' = 1
    /\ results' = << >>
    /\ outcomes' = << >>
    /\ UNCHANGED <<registryVars, workflowVars, streamVars, scanVars>>
    /\ UNCHANGED <<provider, streaming, toolsConfigured, trackTurns,
                   procPc, runSent, modelCalls, lastResp,
                   BufferedChunks, ShouldStream, flushIdx,
                   chunkKind, callHadTools, sentChunks, shapesSent>>
    /\ UNCHANGED hubVars

\* ExecuteTools has returned: the turns are appended, the loop sleeps and
\* goes on to the next iteration
ToolsDone ==
    /\ loopPc = "tools"
    /\ etPc = "done"
    /\ workingMessages' =
          IF trackTurns
          THEN workingMessages \o NewTurns(provider, toolCalls, results)
          ELSE workingMessages
    /\ iter' = iter + 1
    /\ loopPc' = "top"
    /\ etPc' = "idle"
    /\ toolCalls' = << >>
    /\ tcIdx' = 1
    /\ results' = << >>
    /\ outcomes' = << >>
    /\ UNCHANGED <<registryVars, workflowVars, streamVars, scanVars>>
    /\ UNCHANGED <<provider, streaming, toolsConfigured, trackTurns,
                   procPc, runSent, modelCalls, lastResp,
                   retResp, retErr, BufferedChunks, ShouldStream, flushIdx,
                   chunkKind, callHadTools, sentChunks, shapesSent>>
    /\ UNCHANGED hubVars

\* the connection of the run's client is registered and its loops run
TargetConnected ==
    /\ Clients = {target}
    /\ Send = [c \in ClientIds |-> << >>]
    /\ chanClosed = [c \in ClientIds |-> FALSE]
    /\ onceDone = [c \in ClientIds |-> FALSE]
    /\ closeCount = [c \in ClientIds |-> 0]
    /\ hubPc = "select"
    /\ bcastMsg = "none"
    /\ bcastTodo = {}
    /\ bcastCur = "none"
    /\ pc = [c \in ClientIds |-> IF c = target THEN "reading" ELSE "new"]
    /\ wpc = [c \in ClientIds |-> IF c = target THEN "ranging" ELSE "none"]
    /\ connClosed = [c \in ClientIds |-> FALSE]
    /\ framesRead = 0
    /\ lastFrame = NoFrame
    /\ runPc = [c \in ClientIds |-> IF c = target THEN "running" ELSE "none"]
    /\ runNext = [c \in ClientIds |-> 1]
    /\ written = [c \in ClientIds |-> << >>]
    /\ bcastCount = 0
    /\ crashed = FALSE

LoopInit == LoopEntered /\ ToolsIdle /\ TargetConnected /\ WorkflowIdle /\ NoStreamRuns

LoopNext ==
    /\ ~crashed
    /\ \/ ModelCallStart
       \/ LoopExhausted
       \/ LangChainChunkBuffered
       \/ AnthropicChunkSent
       \/ LoopSendPanic
       \/ ModelError
       \/ ModelReturnsFinal
       \/ ModelReturnsTools
       \/ FlushChunk
       \/ FlushDone
       \/ ExecuteToolsStep
       \/ ExecHandlerEmitShape
       \/ ToolsDone
       \/ WriteLoopWrite(target)
       \/ WriteLoopExit(target)
       \/ WriteUnregister(target)
       \/ ReadError(target)
       \/ ReadUnregister(target)

LoopSpec == LoopInit /\ [][LoopNext]_vars

(***************************************************************************)
(* ProcessChatMessage around the loop.                                      *)
(***************************************************************************)
\* ProcessLLM naming the Vertex Anthropic client
ProcessLLMVertexAnthropic == "anthropic"

\* LLM := "groq": NewAgent builds a LangChain client
ProcessLLM == "langchain"

\* ChatStream after ChatWithTools returned: the error of the loop, or the
\* text of the response.  LangChain returns TextContent[0] (never empty, the
\* call keeps non-empty content only) and an error for a response without
\* text; VertexAnthropic joins TextContent, "" when there is none.
ChatStream(p, err, hasText) ==
    IF err # "nil" THEN [text |-> "", err |-> err]
    ELSE IF hasText THEN [text |-> "text", err |-> "nil"]
    ELSE IF p = "anthropic" THEN [text |-> "", err |-> "nil"]
    ELSE [text |-> "", err |-> "no text content"]

\* an envelope of ProcessChatMessage is enqueued to the client
ProcessSend(msg) ==
    /\ SendMessage(target, msg)
    /\ runSent' = Append(runSent, msg)
    /\ UNCHANGED <<Clients, chanClosed, onceDone, closeCount, hubPc, bcastMsg,
                   bcastTodo, bcastCur, pc, wpc, connClosed, framesRead,
                   lastFrame, runPc, runNext, written, bcastCount, crashed>>
    /\ UNCHANGED <<toolVars, workflowVars, streamVars, scanVars>>

\* ProcessEarlyError going on to the agent after the error envelope
ProcessEarlyErrorContinuing ==
    /\ procPc = "entry"
    /\ ProcessSend(ErrorMsg)
    /\ procPc' = "agent"
    /\ loopPc' = "top"
    /\ UNCHANGED <<provider, streaming, toolsConfigured, trackTurns,
                   iter, modelCalls, lastResp, retResp, retErr,
                   BufferedChunks, ShouldStream, flushIdx, chunkKind,
                   callHadTools, sentChunks, shapesSent, workingMessages>>

\* uuid.Parse(boardId) or GetChatHistory fails: an error envelope, return
ProcessEarlyError ==
    /\ procPc = "entry"
    /\ ProcessSend(ErrorMsg)
    /\ procPc' = "failed"
    /\ UNCHANGED <<provider, streaming, toolsConfigured, trackTurns, loopPc,
                   iter, modelCalls, lastResp, retResp, retErr,
                   BufferedChunks, ShouldStream, flushIdx, chunkKind,
                   callHadTools, sentChunks, shapesSent, workingMessages>>

\* SendEventType(chat_starting), then ProcessRequestStream calls ChatStream,
\* which enters ChatWithTools
ProcessStart ==
    /\ procPc = "entry"
    /\ ProcessSend(StartingMsg)
    /\ procPc' = "agent"
    /\ loopPc' = "top"
    /\ UNCHANGED <<provider, streaming, toolsConfigured, trackTurns, iter,
                   modelCalls, lastResp, retResp, retErr, BufferedChunks,
                   ShouldStream, flushIdx, chunkKind, callHadTools,
                   sentChunks, shapesSent, workingMessages>>

\* ProcessRequestStream returned an error: an error envelope, return
ProcessAgentError ==
    /\ procPc = "agent"
    /\ loopPc = "returned"
    /\ \E hasText \in BOOLEAN :
          ChatStream(provider, retErr, hasText).err # "nil"
    /\ ProcessSend(ErrorMsg)
    /\ procPc' = "failed"
    /\ UNCHANGED <<provider, streaming, toolsConfigured, trackTurns, loopPc,
                   iter, modelCalls, lastResp, retResp, retErr,
                   BufferedChunks, ShouldStream, flushIdx, chunkKind,
                   callHadTools, sentChunks, shapesSent, workingMessages>>

\* ProcessRequestStream returned aiResponse: the chat_completed envelope
ProcessComplete ==
    /\ procPc = "agent"
    /\ loopPc = "returned"
    /\ \E hasText \in BOOLEAN :
          /\ ChatStream(provider, retErr, hasText).err = "nil"
          /\ ProcessSend(CompletedMsg(ChatStream(provider, retErr, hasText).text))
    /\ procPc' = "done"
    /\ UNCHANGED <<provider, streaming, toolsConfigured, trackTurns, loopPc,
                   iter, modelCalls, lastResp, retResp, retErr,
                   BufferedChunks, ShouldStream, flushIdx, chunkKind,
                   callHadTools, sentChunks, shapesSent, workingMessages>>

\* ProcessChatMessage entered for a chat_message frame of the client: the
\* client is not nil, so ChatStream builds a StreamingContext
ChatEntered ==
    /\ provider = ProcessLLM
    /\ streaming = TRUE
    /\ toolsConfigured = TRUE
    /\ loopPc = "idle"
    /\ iter = 0
    /\ modelCalls = 0
    /\ lastResp = 0
    /\ retResp = 0
    /\ retErr = "nil"
    /\ BufferedChunks = << >>
    /\ ShouldStream = FALSE
    /\ flushIdx = 1
    /\ chunkKind = << >>
    /\ callHadTools = << >>
    /\ sentChunks = << >>
    /\ shapesSent = 0
    /\ trackTurns = FALSE
    /\ procPc = "entry"
    /\ workingMessages = InitialMessages
    /\ runSent = << >>

ChatInit == ChatEntered /\ ToolsIdle /\ TargetConnected /\ WorkflowIdle /\ NoStreamRuns

ChatNext ==
    \/ ProcessEarlyError
    \/ ProcessStart
    \/ ProcessAgentError
    \/ ProcessComplete
    \/ ModelCallStart
    \/ LoopExhausted
    \/ LangChainChunkBuffered
    \/ ModelError
    \/ ModelReturnsFinal
    \/ ModelReturnsTools
    \/ FlushChunk
    \/ FlushDone
    \/ ExecuteToolsStep
    \/ ExecHandlerEmitShape
    \/ ToolsDone
    \/ WriteLoopWrite(target)

ChatSpec == ChatInit /\ [][ChatNext]_vars

(***************************************************************************)
(* Runs whose conversation is followed.                                     *)
(***************************************************************************)
\* ChatWithTools entered without a StreamingContext, the turns followed
ConvEntered ==
    /\ provider \in Providers
    /\ streaming = FALSE
    /\ toolsConfigured = TRUE
    /\ loopPc = "top"
    /\ iter = 0
    /\ modelCalls = 0
    /\ lastResp = 0
    /\ retResp = 0
    /\ retErr = "nil"
    /\ BufferedChunks = << >>
    /\ ShouldStream = FALSE
    /\ flushIdx = 1
    /\ chunkKind = << >>
    /\ callHadTools = << >>
    /\ sentChunks = << >>
    /\ shapesSent = 0
    /\ trackTurns = TRUE
    /\ procPc = "none"
    /\ workingMessages = InitialMessages
    /\ runSent = << >>

ConvInit == ConvEntered /\ ToolsIdle /\ TargetConnected /\ WorkflowIdle /\ NoStreamRuns

ConvNext ==
    \/ ModelCallStart
    \/ ModelError
    \/ ModelReturnsFinal
    \/ ModelReturnsTools
    \/ ExecuteToolsStep
    \/ ToolsDone

ConvSpec == ConvInit /\ [][ConvNext]_vars

HubSpecInit == HubInit /\ ToolsIdle /\ LoopIdle /\ WorkflowIdle /\ NoStreamRuns

(***************************************************************************)
(* Concurrent callers of the tool registry.                                 *)
(***************************************************************************)
RegistryInit ==
    /\ toolHandlers = RegisterAllTools
    /\ RegistryIdle
    /\ NoToolBatch
    /\ HubInit
    /\ LoopIdle
    /\ WorkflowIdle
    /\ NoStreamRuns

RegistryNext ==
    \/ \E g \in Goroutines : RegistryCall(g)
    \/ \E g \in Goroutines : RegistryLock(g)
    \/ \E g \in Goroutines : RegistryWrite(g)
    \/ \E g \in Goroutines : RegistryRead(g)

RegistrySpec == RegistryInit /\ [][RegistryNext]_vars

HubSpec == HubSpecInit /\ [][HubNext]_vars

ToolsInit ==
    /\ toolHandlers = RegisterAllTools
    /\ NoRegistryCallers
    /\ \E batch \in SeqsUpTo(ToolCall, MaxBatch) : EnterExecuteTools(batch)
    /\ HubInit
    /\ LoopIdle
    /\ WorkflowIdle
    /\ NoStreamRuns

ToolsNext == ExecuteToolsStep

ToolsSpec == ToolsInit /\ [][ToolsNext]_vars

(***************************************************************************)
(* Specifications with the fairness the Go scheduler gives: every goroutine *)
(* that can take a step eventually takes one, a backend call eventually     *)
(* returns.  Text chunks, tool side effects, frames and connection failures *)
(* are not obliged to happen.                                               *)
(***************************************************************************)
FairLoopSpec ==
    /\ LoopSpec
    /\ WF_vars(ModelCallStart)
    /\ WF_vars(LoopExhausted)
    /\ WF_vars(ModelReturnsFinal \/ ModelReturnsTools \/ ModelError)
    /\ WF_vars(ExecuteToolsStep)
    /\ WF_vars(ToolsDone)
    /\ WF_vars(FlushChunk)
    /\ WF_vars(FlushDone)
    /\ WF_vars(LoopSendPanic)
    /\ WF_vars(WriteLoopWrite(target))
    /\ WF_vars(WriteLoopExit(target))
    /\ WF_vars(WriteUnregister(target))
    /\ WF_vars(ReadUnregister(target))

(***************************************************************************)
(* Properties.                                                              *)
(***************************************************************************)

\* C1: ExecuteTools returns exactly one result per call of the batch, and the
\* i-th result carries the ToolCallID and ToolName of the i-th call, for any
\* mix of valid, empty, unknown, failing and panicking calls.
C1_BatchCompleteness ==
    /\ etPc # "panicked"
    /\ Len(results) = tcIdx - 1
    /\ etPc = "done" => Len(results) = Len(toolCalls)
    /\ \A i \in DOMAIN results :
          /\ results[i].ToolCallID = toolCalls[i].ID
          /\ results[i].ToolName = toolCalls[i].Name

C1_Witness ==
    /\ etPc = "done"
    /\ Len(toolCalls) >= 3
    /\ \E i, j, k \in DOMAIN toolCalls :
          /\ outcomes[i] = "panic"
          /\ InputLen(toolCalls[j].Input) = 0
          /\ toolCalls[k].Name = "bogus" /\ toolCalls[k].Input = "args"
          /\ toolCalls[i].ID # toolCalls[j].ID

C3_LangChainFlushesFinalChunksOnly ==
    provider = "langchain" =>
       LET IsFinal(n) == chunkKind[n] = "final"
           finalChunks == SelectSeq([n \in 1..Len(chunkKind) |-> n], IsFinal)
       IN  /\ \A i \in DOMAIN sentChunks : chunkKind[sentChunks[i]] = "final"
           /\ Len(sentChunks) <= Len(finalChunks)
           /\ \A i \in DOMAIN sentChunks : sentChunks[i] = finalChunks[i]
           /\ (loopPc = "returned" /\ retErr = "nil") => sentChunks = finalChunks

C3_Witness ==
    /\ provider = "langchain"
    /\ loopPc = "returned"
    /\ retErr = "nil"
    /\ Len(sentChunks) >= 2
    /\ \E n \in DOMAIN chunkKind : chunkKind[n] = "tool"

\* C4: a streaming Anthropic run never delivers to the client a chunk of a
\* response that turns out to contain tool calls.
C4_AnthropicHoldsToolIterationChunks ==
    provider = "anthropic" =>
       \A i \in DOMAIN sentChunks : chunkKind[sentChunks[i]] # "tool"

\* C5: whichever of the read loop and the write loop submits Unregister
\* first, and also when both do, close(client.Send) is executed at most once
\* (a second close would panic the hub), and exactly once when both loops
\* have unregistered.
C5_QueueClosedExactlyOnce ==
    \A c \in ClientIds :
       /\ closeCount[c] <= 1
       /\ chanClosed[c] <=> closeCount[c] = 1
       /\ (pc[c] = "done" \/ wpc[c] = "done") => closeCount[c] = 1

C5_Witness ==
    \E c \in ClientIds :
       /\ pc[c] = "done"
       /\ wpc[c] = "done"
       /\ closeCount[c] = 1

\* C6: the envelopes a run enqueues for its client with SendMessage, numbered
\* in the order of the calls, reach the socket in exactly that order,
\* whatever other senders and other clients do.
C6_PerClientFifo ==
    \A c \in ClientIds :
       LET IsRun(m) == m.type = "run"
           w == SelectSeq(written[c], IsRun)
           q == SelectSeq(Send[c], IsRun)
       IN  /\ \A i \in DOMAIN w : w[i].n = i
           /\ \A i \in DOMAIN q : q[i].n = runNext[c] - 1 - Len(q) + i

C6_Witness ==
    \E c, d \in ClientIds :
       /\ c # d
       /\ written[c] = <<RunMsg(1)>>
       /\ Send[c] = <<BroadcastMsg, RunMsg(2)>>
       /\ Send[d] = <<BroadcastMsg>>

\* C7: the registry holds exactly the clients whose Register request the hub
\* has processed and none of whose Unregister requests it has processed, and
\* only the hub's own cases change the registry.
C7_RegistryExact ==
    /\ [](Clients = {c \in ClientIds :
                        /\ pc[c] # "new"
                        /\ pc[c] # "done"
                        /\ wpc[c] # "done"})
    /\ [][Clients' # Clients =>
            \E c \in ClientIds :
               Register(c) \/ ReadUnregister(c) \/ WriteUnregister(c)]_vars

C7_Witness ==
    \E c, d \in ClientIds :
       /\ pc[c] = "done"
       /\ c \notin Clients
       /\ d \in Clients
       /\ bcastCount > 0
       /\ hubPc = "select"

\* C8: Hub.Run is never stuck in a per-client send: it is never inside the
\* broadcast range, blocked on the full queue of a client whose write loop
\* has stopped draining, which would leave every later Register and
\* Unregister request unreceived.
C8_HubNeverStuckInSend ==
    ~(/\ hubPc = "broadcast"
      /\ Len(Send[bcastCur]) = QueueCap
      /\ wpc[bcastCur] # "ranging")

\* C9: a socket failure of a client unregisters that client only: no run is
\* faulted by it, the process keeps running, and no other client leaves the
\* registry or has its queue closed.
C9_FailureNotPropagated ==
    /\ ~crashed
    /\ \A c \in ClientIds : runPc[c] # "panicked"
    /\ \A c \in ClientIds :
          (pc[c] = "reading" /\ wpc[c] = "ranging") =>
             (c \in Clients /\ ~chanClosed[c])

\* C10: when the handler of call i panics, ExecuteTools still returns, result
\* i carries an error, and every other result equals the one the batch yields
\* when the handler of call i returns normally instead.
C10_PanicIsolated ==
    /\ etPc # "panicked"
    /\ etPc = "done" =>
          \A i \in DOMAIN outcomes :
             outcomes[i] = "panic" =>
                LET alt == [outcomes EXCEPT ![i] = "ok"]
                    Alone(j) ==
                       IF InputLen(toolCalls[j].Input) = 0
                       THEN ErrorResult(toolCalls[j], "tool input was empty")
                       ELSE IF ~getToolHandler(toolHandlers, toolCalls[j].Name).ok
                       THEN ErrorResult(toolCalls[j], "unknown tool")
                       ELSE IF alt[j] \in {"err", "panic"}
                       THEN ErrorResult(toolCalls[j], HandlerErr(alt[j]))
                       ELSE SuccessResult(toolCalls[j], alt[j])
                IN  /\ Len(results) = Len(toolCalls)
                    /\ results[i].Error # "nil"
                    /\ \A j \in DOMAIN toolCalls \ {i} : results[j] = Alone(j)

C10_Witness ==
    /\ etPc = "done"
    /\ \E i \in DOMAIN outcomes :
          /\ outcomes[i] = "panic"
          /\ i - 1 \in DOMAIN outcomes
          /\ i + 1 \in DOMAIN outcomes
          /\ outcomes[i - 1] \in {"ok", "image"}
          /\ outcomes[i + 1] \in {"ok", "image"}

\* C13: a batch of one call whose name is not registered and whose input map
\* is empty yields one result whose error is the unknown-tool error.
C13_UnknownAndEmptyReportsUnknown ==
    (/\ etPc = "done"
     /\ Len(toolCalls) = 1
     /\ ~getToolHandler(toolHandlers, toolCalls[1].Name).ok
     /\ InputLen(toolCalls[1].Input) = 0)
    => (/\ Len(results) = 1
        /\ results[1].Error = "unknown tool")

\* C17: a failed backend call, at the first iteration or after earlier tool
\* rounds, ends the run at once with the backend error and a nil response:
\* ChatStream turns it into an error without text, and after the return no
\* model call is started, no tool is executed and the outcome never changes.
C17_BackendFailureEndsRun ==
    /\ [](retErr = "backend" =>
            /\ loopPc = "returned"
            /\ retResp = 0
            /\ etPc # "exec"
            /\ \A hasText \in BOOLEAN :
                  /\ ChatStream(provider, retErr, hasText).err # "nil"
                  /\ ChatStream(provider, retErr, hasText).text = "")
    /\ [][retErr = "backend" =>
            UNCHANGED <<loopPc, iter, modelCalls, lastResp, retResp, retErr,
                        toolVars>>]_vars

C17_Witness ==
    /\ loopPc = "returned"
    /\ retErr = "backend"
    /\ modelCalls >= 3
    /\ lastResp = modelCalls - 1
    /\ iter = modelCalls - 1

\* C18: when the budget is exhausted ChatWithTools returns the max-iterations
\* error together with the response of its last backend call, which is not
\* nil; a backend failure returns the nil response.
C18_ExhaustionReturnsLastResponse ==
    /\ (loopPc = "returned" /\ retErr = "max iterations") =>
          /\ retResp # 0
          /\ retResp = lastResp
          /\ retResp = modelCalls
          /\ modelCalls = maxIterations(provider)
          /\ callHadTools[retResp]
    /\ (loopPc = "returned" /\ retErr = "backend") => retResp = 0
    /\ (loopPc = "returned" /\ retResp = 0) => retErr = "backend"

C18_Witness ==
    /\ loopPc = "returned"
    /\ retErr = "max iterations"
    /\ retResp = maxIterations(provider)
    /\ provider = "anthropic"

C11_FirstFinalResponseReturned ==
    (loopPc = "returned" /\ callHadTools = <<FALSE>>) =>
       /\ retErr = "nil"
       /\ retResp = 1
       /\ modelCalls = 1
       /\ iter = 0
       /\ etPc = "idle"
       /\ toolCalls = << >>
       /\ results = << >>
       /\ outcomes = << >>
       /\ workingMessages = InitialMessages

C11_Witness ==
    /\ loopPc = "returned"
    /\ callHadTools = <<FALSE>>
    /\ retResp = 1
    /\ provider = "langchain"

\* C19: in the conversation of a run every assistant turn with tool calls is
\* directly followed by a user turn of tool results with one result per
\* call, the k-th result answering the k-th call (same tool-use id for
\* Anthropic, same tool name for LangChain and Gemini); a call with an empty
\* input or an unregistered name is answered by an error result at its place.
C19_ToolCallsAnsweredInOrder ==
    \A i \in DOMAIN workingMessages :
       workingMessages[i].kind = "tool_calls" =>
          /\ workingMessages[i].role = "assistant"
          /\ i + 1 \in DOMAIN workingMessages
          /\ workingMessages[i + 1].role = "user"
          /\ workingMessages[i + 1].kind = "tool_results"
          /\ Len(workingMessages[i + 1].items) = Len(workingMessages[i].items)
          /\ \A k \in DOMAIN workingMessages[i].items :
                LET call == workingMessages[i].items[k]
                    res == workingMessages[i + 1].items[k]
                IN  /\ provider = "anthropic" => res.id = call.id
                    /\ provider # "anthropic" => res.name = call.name
                    /\ InputLen(call.input) = 0 => res.kind = "error"
                    /\ ~getToolHandler(toolHandlers, call.name).ok
                          => res.kind = "error"

C19_Witness ==
    /\ provider = "langchain"
    /\ Len(workingMessages) >= 3
    /\ workingMessages[2].kind = "tool_calls"
    /\ Len(workingMessages[2].items) = 2
    /\ workingMessages[2].items[1].input = "empty"
    /\ workingMessages[2].items[2].name = "bogus"
    /\ workingMessages[3].items[1].name = "addShape"
    /\ workingMessages[3].items[2].name = "bogus"
    /\ loopPc = "model"
    /\ modelCalls = 2

\* C20 as stated: in each of the three loops an iteration one of whose
\* results has HasImage appends, after the assistant turn and the
\* tool-result turn, one more user turn holding the images, and an iteration
\* without image appends the two turns only.
C20_ImageTurnInEveryLoop ==
    [][(loopPc = "tools" /\ loopPc' = "top") =>
          LET n == Len(workingMessages)
              added == SubSeq(workingMessages', n + 1, Len(workingMessages'))
              images == {k \in DOMAIN results : results[k].HasImage}
          IN  /\ Len(added) >= 2
              /\ added[2].kind = "tool_results"
              /\ IF images # {}
                 THEN /\ Len(added) = 3
                      /\ added[3].role = "user"
                      /\ added[3].kind = "image"
                 ELSE Len(added) = 2]_vars

\* C20, amended: the LangChain and the Gemini loop append the images of an
\* iteration as one more user turn directly after the tool-result turn (a
\* text block and an image block per image result) and no such turn when no
\* result has an image; the Anthropic loop never appends a third turn, the
\* image is the content of the tool_result block of its result.
C20_ImageTurnInLangChainAndGemini ==
    [][(loopPc = "tools" /\ loopPc' = "top") =>
          LET n == Len(workingMessages)
              added == SubSeq(workingMessages', n + 1, Len(workingMessages'))
              images == {k \in DOMAIN results : results[k].HasImage}
          IN  /\ Len(added) >= 2
              /\ added[2].kind = "tool_results"
              /\ IF provider = "anthropic"
                 THEN /\ Len(added) = 2
                      /\ \A k \in DOMAIN results :
                            results[k].HasImage
                               <=> added[2].items[k].kind = "image"
                 ELSE IF images # {}
                 THEN /\ Len(added) = 3
                      /\ added[3].role = "user"
                      /\ added[3].kind = "image"
                      /\ Len(added[3].items) = 2 * Cardinality(images)
                      /\ \A k \in DOMAIN results :
                            added[2].items[k].kind # "image"
                 ELSE Len(added) = 2]_vars

C20_Witness ==
    /\ provider = "gemini"
    /\ Len(workingMessages) = 4
    /\ workingMessages[3].kind = "tool_results"
    /\ Len(workingMessages[3].items) = 2
    /\ workingMessages[3].items[2].kind = "metadata"
    /\ workingMessages[4].role = "user"
    /\ workingMessages[4].kind = "image"
    /\ Len(workingMessages[4].items) = 2

\* C12: when ProcessChatMessage ends with success, the chat envelopes it
\* enqueued to the client are, in order, one chat_starting, zero or more
\* chat_response and one chat_completed whose message is not empty, with no
\* error envelope; chat_completed is always the last envelope of the run, so
\* no chat_response follows it.  (shape_created envelopes of tool handlers
\* may lie between the chat envelopes.)
C12_ChatEnvelopeOrder ==
    LET IsChat(m) == m.type \in {"chat_starting", "chat_response",
                                 "chat_completed"}
        chat == SelectSeq(runSent, IsChat)
    IN  /\ procPc = "done" =>
             /\ Len(chat) >= 2
             /\ chat[1] = StartingMsg
             /\ chat[Len(chat)] = CompletedMsg("text")
             /\ CompletedMsg("text") # CompletedMsg("")
             /\ \A i \in 2..(Len(chat) - 1) : chat[i].type = "chat_response"
             /\ \A i \in DOMAIN runSent : runSent[i].type # "error"
        /\ \A i \in DOMAIN runSent :
              runSent[i].type = "chat_completed" =>
                 /\ i = Len(runSent)
                 /\ procPc = "done"

C12_Witness ==
    /\ procPc = "done"
    /\ Len(runSent) = 5
    /\ runSent[1] = StartingMsg
    /\ runSent[2] = ShapeMsg
    /\ runSent[3].type = "chat_response"
    /\ runSent[4].type = "chat_response"
    /\ runSent[5] = CompletedMsg("text")
    /\ modelCalls = 2

\* C27: a call whose input map is nil or empty gets the empty-input error
\* result and no handler is invoked for it, whether or not its tool is
\* registered; the calls after it in the batch are processed all the same.
C27_EmptyInputNeverReachesHandler ==
    /\ \A i \in DOMAIN results :
          InputLen(toolCalls[i].Input) = 0 =>
             /\ results[i].Error = "tool input was empty"
             /\ results[i].Result = "nil"
             /\ ~results[i].HasImage
             /\ outcomes[i] = "none"
    /\ etPc = "done" => Len(results) = Len(toolCalls)

C27_Witness ==
    /\ etPc = "done"
    /\ Len(toolCalls) = 3
    /\ toolCalls[1].Name = "addShape" /\ toolCalls[1].Input = "empty"
    /\ toolCalls[2].Name = "getBoardData" /\ toolCalls[2].Input = "nil"
    /\ toolCalls[3].Name = "addShape" /\ toolCalls[3].Input = "args"
    /\ outcomes = <<"none", "none", "ok">>
    /\ results[3].Error = "nil"

\* C21: failed tool calls never end the loop.  A run returns only with the
\* response that had no tool call, with a backend error or with the
\* max-iterations error; the step that leaves ExecuteTools goes back to the
\* loop condition with one turn of results appended in which every failed
\* call (unknown tool, empty input, handler error, handler panic) has an
\* error result at its place; and from the loop condition the run starts the
\* next backend call unless the budget is exhausted.
C21_FailedToolsDoNotEndLoop ==
    /\ [](/\ loopPc = "tools" => etPc \in {"exec", "done"}
          /\ loopPc = "returned" =>
                /\ retErr \in {"nil", "backend", "max iterations"}
                /\ retErr = "nil" => ~callHadTools[modelCalls])
    /\ [][(loopPc = "tools" /\ loopPc' # "tools") =>
            /\ loopPc' = "top"
            /\ iter' = iter + 1
            /\ retErr' = "nil"
            /\ Len(results) = Len(toolCalls)
            /\ Len(workingMessages') = Len(workingMessages)
                  + (IF Len(ImageContentBlocks(results)) > 0
                        /\ provider # "anthropic" THEN 3 ELSE 2)
            /\ LET tr == workingMessages'[Len(workingMessages) + 2]
               IN  /\ tr.kind = "tool_results"
                   /\ Len(tr.items) = Len(toolCalls)
                   /\ \A k \in DOMAIN results :
                         /\ results[k].Error # "nil" <=> tr.items[k].kind = "error"
                         /\ IF provider = "anthropic"
                            THEN tr.items[k].id = toolCalls[k].ID
                            ELSE tr.items[k].name = toolCalls[k].Name]_vars
    /\ [][loopPc = "top" =>
            \/ loopPc' = "model" /\ modelCalls' = modelCalls + 1
            \/ /\ ~(iter < maxIterations(provider))
               /\ loopPc' = "returned"
               /\ retErr' = "max iterations"]_vars

C21_Witness ==
    /\ provider = "anthropic"
    /\ loopPc = "model"
    /\ modelCalls = 2
    /\ Len(workingMessages) = 3
    /\ Len(workingMessages[2].items) = 2
    /\ workingMessages[2].items[1].input = "empty"
    /\ workingMessages[2].items[2].name = "bogus"
    /\ Len(workingMessages[3].items) = 2
    /\ \A k \in 1..2 : workingMessages[3].items[k].kind = "error"

\* C29: the conversation of a run only grows at its end: every step leaves
\* the turns it had in place and unaltered, so what a backend call is sent
\* is a prefix of what the next one is sent; the conversation does not
\* change while a backend call is in progress; and the messages the caller
\* passed in stay the first turns, unchanged.
C29_ConversationAppendOnly ==
    /\ [][/\ Len(workingMessages') >= Len(workingMessages)
          /\ SubSeq(workingMessages', 1, Len(workingMessages)) = workingMessages
          /\ (loopPc = "model" \/ loopPc' = "model")
                => workingMessages' = workingMessages]_vars
    /\ [](/\ Len(workingMessages) >= Len(InitialMessages)
          /\ SubSeq(workingMessages, 1, Len(InitialMessages)) = InitialMessages)

C29_Witness ==
    /\ loopPc = "model"
    /\ modelCalls = 2
    /\ Len(workingMessages) = 4
    /\ workingMessages[1] = InitialMessages[1]
    /\ workingMessages[2].kind = "tool_calls"
    /\ workingMessages[4].kind = "image"

\* C22: with goroutines calling the registry functions concurrently, the
\* registry always is what the writes that have returned make it, taken in
\* the order they held the mutex: a name is registered, with the handler of
\* its last RegisterTool, iff its last write was a RegisterTool (or it was
\* registered at startup and never written).  RegisterTool of a registered
\* name replaces the handler and changes nothing else, UnregisterTool of an
\* absent name changes nothing, and getToolHandler returns ok with that last
\* handler exactly for the names registered at the time it holds the mutex.
\* A writer holds the mutex alone.
C22_RegistryLastWriterWins ==
    /\ [](LET Writes(n) == {i \in DOMAIN regLog : regLog[i].name = n}
              Last(n) == regLog[CHOOSE i \in Writes(n) :
                                   \A j \in Writes(n) : j <= i]
              Registered(n) ==
                  IF Writes(n) = {} THEN n \in DOMAIN RegisterAllTools
                  ELSE Last(n).kind = "RegisterTool"
              Handler(n) ==
                  IF Writes(n) = {} THEN RegisterAllTools[n] ELSE Last(n).h
          IN  /\ \A n \in ToolNames :
                    /\ n \in DOMAIN toolHandlers <=> Registered(n)
                    /\ Registered(n) => toolHandlers[n] = Handler(n)
              /\ toolHandlersMu.w =>
                    /\ toolHandlersMu.r = 0
                    /\ Cardinality({g \in Goroutines : regPc[g] = "locked"}) = 1)
    /\ [][LET Writes(n) == {i \in DOMAIN regLog : regLog[i].name = n}
              Last(n) == regLog[CHOOSE i \in Writes(n) :
                                   \A j \in Writes(n) : j <= i]
              Registered(n) ==
                  IF Writes(n) = {} THEN n \in DOMAIN RegisterAllTools
                  ELSE Last(n).kind = "RegisterTool"
              Handler(n) ==
                  IF Writes(n) = {} THEN RegisterAllTools[n] ELSE Last(n).h
              Returns(g, kind) ==
                  /\ regPc[g] = "locked"
                  /\ regOp[g].kind = kind
                  /\ regPc'[g] = "idle"
          IN  \A g \in Goroutines :
                /\ Returns(g, "RegisterTool") =>
                      /\ DOMAIN toolHandlers' = DOMAIN toolHandlers \cup {regOp[g].name}
                      /\ toolHandlers'[regOp[g].name] = regOp[g].h
                      /\ \A n \in DOMAIN toolHandlers \ {regOp[g].name} :
                            toolHandlers'[n] = toolHandlers[n]
                /\ Returns(g, "UnregisterTool") =>
                      /\ DOMAIN toolHandlers' = DOMAIN toolHandlers \ {regOp[g].name}
                      /\ \A n \in DOMAIN toolHandlers' :
                            toolHandlers'[n] = toolHandlers[n]
                      /\ regOp[g].name \notin DOMAIN toolHandlers
                            => toolHandlers' = toolHandlers
                /\ Returns(g, "getToolHandler") =>
                      /\ regFound'.name = regOp[g].name
                      /\ regFound'.ok <=> Registered(regOp[g].name)
                      /\ regFound'.ok => regFound'.h = Handler(regOp[g].name)
                      /\ toolHandlers' = toolHandlers]_vars

C22_Witness ==
    /\ regLog = <<[kind |-> "RegisterTool", name |-> "addShape",
                   h |-> "GetBoardDataHandler"],
                  [kind |-> "UnregisterTool", name |-> "bogus", h |-> ""],
                  [kind |-> "UnregisterTool", name |-> "addShape", h |-> ""]>>
    /\ regFound = [name |-> "addShape", h |-> "GetBoardDataHandler", ok |-> TRUE]
    /\ "addShape" \notin DOMAIN toolHandlers
    /\ \E g \in Goroutines : regPc[g] = "locked" /\ regOp[g].kind = "getToolHandler"

\* C23: a client's queue never holds more messages than its capacity, and a
\* message is enqueued only when the queue is open and has a free slot, one
\* message per send.  While the queue of a client is full, the run that
\* sends to it cannot complete its SendMessage, but Hub.Run, when it waits
\* in its select, still receives every Register and Unregister request, and
\* the read loops of the other clients still answer their frames.
C23_FullQueueBlocksCallerOnly ==
    /\ [](\A c \in ClientIds :
            /\ Len(Send[c]) <= QueueCap
            /\ (/\ Len(Send[c]) = QueueCap
                /\ ~chanClosed[c]
                /\ runPc[c] = "running"
                /\ runNext[c] <= MaxRunMsgs
                /\ ~crashed)
               => /\ ~ENABLED RunSend(c)
                  /\ hubPc = "select" =>
                        \A d \in ClientIds :
                           /\ pc[d] = "new" => ENABLED Register(d)
                           /\ pc[d] = "unreg" => ENABLED ReadUnregister(d)
                           /\ wpc[d] = "unreg" => ENABLED WriteUnregister(d)
                  /\ \A d \in ClientIds \ {c} :
                        (/\ pc[d] = "reading"
                         /\ ~connClosed[d]
                         /\ framesRead < MaxFrames
                         /\ CanSend(d)) => ENABLED ReadPing(d))
    /\ [][Send' # Send =>
          \A c \in ClientIds :
            Len(Send'[c]) > Len(Send[c]) =>
               /\ Len(Send[c]) < QueueCap
               /\ ~chanClosed[c]
               /\ Len(Send'[c]) = Len(Send[c]) + 1]_vars

C23_Witness ==
    \E c, d \in ClientIds :
       /\ c # d
       /\ Len(Send[c]) = QueueCap
       /\ ~chanClosed[c]
       /\ runPc[c] = "running"
       /\ runNext[c] = QueueCap + 1
       /\ hubPc = "select"
       /\ pc[d] = "unreg"
       /\ d \in Clients

\* C24: when Hub.Run receives a Broadcast it ranges over exactly the clients
\* registered at that moment, each once; the registry does not change during
\* the range; every step of the range enqueues the message once, at the end
\* of the queue of the client it has reached, which is registered and whose
\* queue is open, and nothing on any other queue; and a broadcast message is
\* never enqueued in any other way.  So when the range is over every client
\* registered at the broadcast has the message exactly once and no
\* unregistered client has it.
C24_BroadcastReachesRegisteredOnce ==
    /\ [](hubPc = "broadcast" =>
             /\ bcastCur \in Clients
             /\ bcastTodo \subseteq Clients
             /\ bcastCur \notin bcastTodo
             /\ \A c \in bcastTodo \cup {bcastCur} : ~chanClosed[c])
    /\ [][/\ (hubPc = "select" /\ hubPc' = "broadcast") =>
                /\ bcastTodo' \cup {bcastCur'} = Clients
                /\ UNCHANGED <<Send, Clients>>
          /\ (hubPc = "select" /\ bcastCount' # bcastCount
                 /\ hubPc' = "select") =>
                /\ Clients = {}
                /\ UNCHANGED Send
          /\ hubPc = "broadcast" =>
                /\ UNCHANGED <<Clients, chanClosed>>
                /\ <<hubPc, bcastCur, bcastTodo>>' # <<hubPc, bcastCur, bcastTodo>> =>
                      /\ Send' = [Send EXCEPT ![bcastCur] = Append(@, bcastMsg)]
                      /\ bcastMsg = BroadcastMsg
                      /\ IF bcastTodo = {}
                         THEN hubPc' = "select"
                         ELSE /\ hubPc' = "broadcast"
                              /\ bcastCur' \in bcastTodo
                              /\ bcastTodo' = bcastTodo \ {bcastCur'}
          /\ Send' # Send =>
                \A c \in ClientIds :
                   (/\ Len(Send'[c]) > Len(Send[c])
                    /\ Send'[c][Len(Send'[c])] = BroadcastMsg)
                   => (hubPc = "broadcast" /\ bcastCur = c /\ c \in Clients)]_vars

C24_Witness ==
    \E c, d \in ClientIds :
       /\ c # d
       /\ hubPc = "select"
       /\ bcastCount = 1
       /\ Clients = {c}
       /\ pc[d] = "done"
       /\ Send[c] = <<BroadcastMsg>>
       /\ Send[d] = << >>

\* C25: a connection one of whose loops has ended on a failure is never left
\* where its cleanup cannot go on: it never happens that the write loop has
\* failed and waits to hand its Unregister to the hub, the client still
\* registered and its socket still open, while Hub.Run is blocked inside the
\* broadcast range on a full queue that no write loop drains.
C25_FailedConnectionCleanedUp ==
    \A c \in ClientIds :
       ~(/\ wpc[c] = "unreg"
         /\ c \in Clients
         /\ ~chanClosed[c]
         /\ ~connClosed[c]
         /\ hubPc = "broadcast"
         /\ ~CanSend(bcastCur)
         /\ wpc[bcastCur] # "ranging"
         /\ ~ENABLED HubNext)

\* C26: a client goes Unregistered -> Registered -> Unregistered and stays
\* there.  Before its handler has submitted it to hub.Register the client is
\* not in the registry, none of its loops runs and none of its frames has
\* been processed; the submission happens once and puts the client into the
\* registry; a frame of a client is processed only by its read loop, which
\* starts after the registration; what enters the registry is a client being
\* submitted; a client that has left the registry is never in it again.
C26_ClientLifecycle ==
    /\ [](\A c \in ClientIds :
             pc[c] = "new" =>
                /\ c \notin Clients
                /\ wpc[c] = "none"
                /\ runPc[c] = "none"
                /\ Send[c] = << >>
                /\ ~onceDone[c]
                /\ lastFrame.c # c)
    /\ [][<<pc, Clients, framesRead>>' # <<pc, Clients, framesRead>> =>
          \A c \in ClientIds :
             /\ (pc[c] # "new" => pc'[c] # "new")
             /\ (pc[c] = "new" /\ pc'[c] # "new" => c \in Clients')
             /\ (c \notin Clients /\ c \in Clients' => pc[c] = "new")
             /\ (pc[c] # "new" /\ c \notin Clients => c \notin Clients')
             /\ (framesRead' # framesRead /\ lastFrame'.c = c
                    => pc[c] = "reading")]_vars

\* a client that registered, had a frame processed and was unregistered
C26_Witness ==
    \E c \in ClientIds :
       /\ pc[c] = "done"
       /\ c \notin Clients
       /\ onceDone[c]
       /\ lastFrame.c = c

(***************************************************************************)
(* TriggerChatWorkflow, the synchronous HTTP entry point, around the loop,  *)
(* and CreateHumanAndAiMessages.                                            *)
(***************************************************************************)
\* dto.Message of the request
DtoMessage == "message"

\* the rows of models.Chat created for a question and its answer
HumanRow(content) == [role |-> "user", content |-> content]

AiRow(content) == [role |-> "assistant", content |-> content]

\* the chats table when the request arrives: empty, or the two rows of an
\* earlier request
ChatHistories == {<< >>, <<HumanRow("earlier"), AiRow("earlier answer")>>}

\* LangChainClient.Chat after ChatWithTools returned: the error of the loop,
\* TextContent[0], or an error for a response without text
Chat(err, hasText) ==
    IF err # "nil" THEN [text |-> "", err |-> err]
    ELSE IF hasText THEN [text |-> "text", err |-> "nil"]
    ELSE [text |-> "", err |-> "no text content"]

\* the handler answers with a status and returns
TriggerRespond(code) ==
    /\ status' = code
    /\ triggerPc' = "responded"

\* uuid.Parse fails, BodyParser fails or dto.Message is empty: 400
TriggerBadRequest ==
    /\ triggerPc = "entry"
    /\ TriggerRespond(400)
    /\ UNCHANGED <<chats, txRows, aiResponse>>
    /\ UNCHANGED <<toolVars, hubVars, loopVars, streamVars, scanVars>>

\* GetChatHistory fails: 500
TriggerHistoryError ==
    /\ triggerPc = "entry"
    /\ TriggerRespond(500)
    /\ UNCHANGED <<chats, txRows, aiResponse>>
    /\ UNCHANGED <<toolVars, hubVars, loopVars, streamVars, scanVars>>

\* agent.ProcessRequest calls Chat, which enters ChatWithTools without a
\* StreamingContext
TriggerProcessRequest ==
    /\ triggerPc = "entry"
    /\ triggerPc' = "agent"
    /\ loopPc' = "top"
    /\ UNCHANGED <<chats, txRows, aiResponse, status>>
    /\ UNCHANGED <<provider, streaming, toolsConfigured, trackTurns, iter,
                   modelCalls, lastResp, retResp, retErr, BufferedChunks,
                   ShouldStream, flushIdx, chunkKind, callHadTools,
                   sentChunks, shapesSent, procPc, workingMessages, runSent>>
    /\ UNCHANGED <<toolVars, hubVars, streamVars, scanVars>>

\* ProcessRequest returned an error: 500, before any row is created
TriggerAgentError ==
    /\ triggerPc = "agent"
    /\ loopPc = "returned"
    /\ \E hasText \in BOOLEAN : Chat(retErr, hasText).err # "nil"
    /\ TriggerRespond(500)
    /\ UNCHANGED <<chats, txRows, aiResponse>>
    /\ UNCHANGED <<toolVars, hubVars, loopVars, streamVars, scanVars>>

\* ProcessRequest returned aiResponse; CreateHumanAndAiMessages opens its
\* transaction
TriggerAgentReturned ==
    /\ triggerPc = "agent"
    /\ loopPc = "returned"
    /\ \E hasText \in BOOLEAN :
          /\ Chat(retErr, hasText).err = "nil"
          /\ aiResponse' = Chat(retErr, hasText).text
    /\ triggerPc' = "tx"
    /\ txRows' = << >>
    /\ UNCHANGED <<chats, status>>
    /\ UNCHANGED <<toolVars, hubVars, loopVars, streamVars, scanVars>>

\* tx.Create of the human message inside the transaction
TxCreateHuman ==
    /\ triggerPc = "tx"
    /\ Len(txRows) = 0
    /\ txRows' = <<HumanRow(DtoMessage)>>
    /\ UNCHANGED <<triggerPc, chats, aiResponse, status>>
    /\ UNCHANGED <<toolVars, hubVars, loopVars, streamVars, scanVars>>

\* tx.Create of the AI message inside the transaction
TxCreateAi ==
    /\ triggerPc = "tx"
    /\ Len(txRows) = 1
    /\ txRows' = Append(txRows, AiRow(aiResponse))
    /\ UNCHANGED <<triggerPc, chats, aiResponse, status>>
    /\ UNCHANGED <<toolVars, hubVars, loopVars, streamVars, scanVars>>

\* TxError committing the rows created so far
TxErrorKeepingRows ==
    /\ triggerPc = "tx"
    /\ chats' = chats \o txRows
    /\ txRows' = << >>
    /\ TriggerRespond(500)
    /\ UNCHANGED aiResponse
    /\ UNCHANGED <<toolVars, hubVars, loopVars, streamVars, scanVars>>

\* a tx.Create or the commit fails: the transaction is rolled back,
\* CreateHumanAndAiMessages returns the error and the handler answers 500
TxError ==
    /\ triggerPc = "tx"
    /\ txRows' = << >>
    /\ TriggerRespond(500)
    /\ UNCHANGED <<chats, aiResponse>>
    /\ UNCHANGED <<toolVars, hubVars, loopVars, streamVars, scanVars>>

\* the function of the transaction returned nil: commit, and the handler
\* answers with the text and the two ids
TxCommit ==
    /\ triggerPc = "tx"
    /\ Len(txRows) = 2
    /\ chats' = chats \o txRows
    /\ txRows' = << >>
    /\ TriggerRespond(200)
    /\ UNCHANGED aiResponse
    /\ UNCHANGED <<toolVars, hubVars, loopVars, streamVars, scanVars>>

\* TriggerChatWorkflow entered: LLM := "groq", no client
TriggerEntered ==
    /\ provider = ProcessLLM
    /\ streaming = FALSE
    /\ toolsConfigured = TRUE
    /\ loopPc = "idle"
    /\ iter = 0
    /\ modelCalls = 0
    /\ lastResp = 0
    /\ retResp = 0
    /\ retErr = "nil"
    /\ BufferedChunks = << >>
    /\ ShouldStream = FALSE
    /\ flushIdx = 1
    /\ chunkKind = << >>
    /\ callHadTools = << >>
    /\ sentChunks = << >>
    /\ shapesSent = 0
    /\ trackTurns = FALSE
    /\ procPc = "none"
    /\ workingMessages = InitialMessages
    /\ runSent = << >>
    /\ triggerPc = "entry"
    /\ chats \in ChatHistories
    /\ txRows = << >>
    /\ aiResponse = ""
    /\ status = 0

TriggerInit == TriggerEntered /\ ToolsIdle /\ HubInit /\ NoStreamRuns

TriggerNext ==
    \/ TriggerBadRequest
    \/ TriggerHistoryError
    \/ TriggerProcessRequest
    \/ TriggerAgentError
    \/ TriggerAgentReturned
    \/ TxCreateHuman
    \/ TxCreateAi
    \/ TxError
    \/ TxCommit
    \/ ModelCallStart
    \/ LoopExhausted
    \/ ModelError
    \/ ModelReturnsFinal
    \/ ModelReturnsTools
    \/ ExecuteToolsStep
    \/ ToolsDone

TriggerSpec == TriggerInit /\ [][TriggerNext]_vars

\* C30: in TriggerChatWorkflow the chats table changes only after the run
\* has returned without error, and only by gaining the human row and the AI
\* row of the request together.  While the request is validated and while
\* the run is going on the table is as the request found it; a request
\* answered with an error leaves it so; a request answered with 200 has
\* added exactly the two rows; a reader of the table never sees one row of
\* the pair without the other.
C30_TranscriptWrittenAfterRunAtomically ==
    /\ [](/\ triggerPc \in {"entry", "agent"} => chats \in ChatHistories
          /\ (loopPc = "returned" /\ retErr # "nil") => chats \in ChatHistories
          /\ status \in {400, 500} => chats \in ChatHistories
          /\ status = 200 =>
                \E h \in ChatHistories :
                   chats = h \o <<HumanRow(DtoMessage), AiRow(aiResponse)>>
          /\ \A i \in 1..Len(chats) :
                chats[i].role = (IF i % 2 = 1 THEN "user" ELSE "assistant")
          /\ Len(chats) % 2 = 0)
    /\ [][chats' # chats =>
             /\ triggerPc = "tx"
             /\ loopPc = "returned"
             /\ retErr = "nil"
             /\ chats' = chats \o <<HumanRow(DtoMessage), AiRow(aiResponse)>>
             /\ status' = 200]_vars

\* after a run that called tools and then converged, both rows are in the
\* table behind those of the earlier request
C30_Witness ==
    /\ status = 200
    /\ Len(callHadTools) > 0
    /\ Len(chats) = 4
    /\ chats[3] = HumanRow(DtoMessage)
    /\ chats[4] = AiRow("text")

(***************************************************************************)
(* Two streaming runs for the same client.                                  *)
(***************************************************************************)
\* the addresses some run refers to
LiveContexts ==
    ({streamCtx[r] : r \in StreamRuns} \cup
     {currentStreamCtx[r] : r \in StreamRuns}) \ {0}

\* one package-level StreamingContext used by every call: the object at the
\* lowest address
SharedStreamingContext == CHOOSE i \in CtxIds : \A j \in CtxIds : i <= j

\* &StreamingContext{...}: a new object, at an address nothing refers to
NewStreamingContext == CHOOSE i \in CtxIds : i \notin LiveContexts

\* a text chunk, named by the run and the backend call that produced it;
\* the position in the buffer tells chunks of one call apart
Chunk(r, call) == [run |-> r, call |-> call]

\* the context of the iteration goes out of scope
ReleaseCurrent(r) ==
    /\ currentStreamCtx' = [currentStreamCtx EXCEPT ![r] = 0]
    /\ contexts' = [contexts EXCEPT ![currentStreamCtx[r]] = NoContext]

\* ProcessChatMessage reaches ChatStream with the client: a StreamingContext
\* of the run, then ChatWithTools
StreamEnter(r) ==
    /\ streamPc[r] = "idle"
    /\ streamCtx' = [streamCtx EXCEPT ![r] = NewStreamingContext]
    /\ contexts' = [contexts EXCEPT ![NewStreamingContext] =
                       [Client |-> target, BufferedChunks |-> << >>,
                        ShouldStream |-> FALSE]]
    /\ streamPc' = [streamPc EXCEPT ![r] = "top"]
    /\ UNCHANGED <<currentStreamCtx, streamIter, flushPos, flushed>>
    /\ UNCHANGED <<toolVars, hubVars, loopVars, workflowVars, scanVars>>

\* an iteration begins: currentStreamCtx is a new StreamingContext with an
\* empty buffer, and the backend call starts with it
StreamIterate(r) ==
    /\ streamPc[r] = "top"
    /\ streamIter[r] < MaxStreamCalls
    /\ currentStreamCtx' = [currentStreamCtx EXCEPT ![r] = NewStreamingContext]
    /\ contexts' = [contexts EXCEPT ![NewStreamingContext] =
                       [Client |-> contexts[streamCtx[r]].Client,
                        BufferedChunks |-> << >>,
                        ShouldStream |-> FALSE]]
    /\ streamIter' = [streamIter EXCEPT ![r] = @ + 1]
    /\ streamPc' = [streamPc EXCEPT ![r] = "model"]
    /\ UNCHANGED <<streamCtx, flushPos, flushed>>
    /\ UNCHANGED <<toolVars, hubVars, loopVars, workflowVars, scanVars>>

\* streamingFunc appending every chunk to BufferedChunks, whatever the flag
StreamCallbackIgnoringFlag(r) ==
    /\ streamPc[r] = "model"
    /\ Len(contexts[currentStreamCtx[r]].BufferedChunks) + Len(flushed[r])
          < MaxStreamChunks
    /\ contexts' = [contexts EXCEPT
                       ![currentStreamCtx[r]].BufferedChunks =
                           Append(@, Chunk(r, streamIter[r]))]
    /\ UNCHANGED <<Send, flushed>>
    /\ UNCHANGED <<streamCtx, currentStreamCtx, streamPc, streamIter, flushPos>>
    /\ UNCHANGED <<Clients, chanClosed, onceDone, closeCount, hubPc, bcastMsg,
                   bcastTodo, bcastCur, pc, wpc, connClosed, framesRead,
                   lastFrame, runPc, runNext, written, bcastCount, crashed>>
    /\ UNCHANGED <<toolVars, loopVars, workflowVars, scanVars>>

\* streamingFunc of the call: the chunk is sent at once when ShouldStream,
\* appended to BufferedChunks of the call's context otherwise
StreamCallback(r) ==
    /\ streamPc[r] = "model"
    /\ Len(contexts[currentStreamCtx[r]].BufferedChunks) + Len(flushed[r])
          < MaxStreamChunks
    /\ IF contexts[currentStreamCtx[r]].ShouldStream
       THEN /\ SendMessage(contexts[currentStreamCtx[r]].Client,
                           ChunkMsg(Chunk(r, streamIter[r])))
            /\ flushed' = [flushed EXCEPT ![r] =
                              Append(@, Chunk(r, streamIter[r]))]
            /\ UNCHANGED contexts
       ELSE /\ contexts' = [contexts EXCEPT
                               ![currentStreamCtx[r]].BufferedChunks =
                                   Append(@, Chunk(r, streamIter[r]))]
            /\ UNCHANGED <<Send, flushed>>
    /\ UNCHANGED <<streamCtx, currentStreamCtx, streamPc, streamIter, flushPos>>
    /\ UNCHANGED <<Clients, chanClosed, onceDone, closeCount, hubPc, bcastMsg,
                   bcastTodo, bcastCur, pc, wpc, connClosed, framesRead,
                   lastFrame, runPc, runNext, written, bcastCount, crashed>>
    /\ UNCHANGED <<toolVars, loopVars, workflowVars, scanVars>>

\* the backend call fails: ChatWithTools returns the error
StreamModelError(r) ==
    /\ streamPc[r] = "model"
    /\ streamPc' = [streamPc EXCEPT ![r] = "returned"]
    /\ ReleaseCurrent(r)
    /\ UNCHANGED <<streamCtx, streamIter, flushPos, flushed>>
    /\ UNCHANGED <<toolVars, hubVars, loopVars, workflowVars, scanVars>>

\* the response has function calls: the tools run, the buffer of the call
\* is dropped and the loop goes on
StreamModelReturnsTools(r) ==
    /\ streamPc[r] = "model"
    /\ streamIter[r] < MaxStreamCalls
    /\ streamPc' = [streamPc EXCEPT ![r] = "top"]
    /\ ReleaseCurrent(r)
    /\ UNCHANGED <<streamCtx, streamIter, flushPos, flushed>>
    /\ UNCHANGED <<toolVars, hubVars, loopVars, workflowVars, scanVars>>

\* the response has no function call: the range over BufferedChunks begins
StreamModelReturnsFinal(r) ==
    /\ streamPc[r] = "model"
    /\ streamPc' = [streamPc EXCEPT ![r] = "flush"]
    /\ flushPos' = [flushPos EXCEPT ![r] = 1]
    /\ UNCHANGED <<contexts, streamCtx, currentStreamCtx, streamIter, flushed>>
    /\ UNCHANGED <<toolVars, hubVars, loopVars, workflowVars, scanVars>>

\* one buffered chunk is sent to the client of the context
StreamFlushChunk(r) ==
    /\ streamPc[r] = "flush"
    /\ flushPos[r] <= Len(contexts[currentStreamCtx[r]].BufferedChunks)
    /\ SendMessage(contexts[currentStreamCtx[r]].Client,
                   ChunkMsg(contexts[currentStreamCtx[r]].BufferedChunks[flushPos[r]]))
    /\ flushed' = [flushed EXCEPT ![r] =
                      Append(@, contexts[currentStreamCtx[r]].BufferedChunks[flushPos[r]])]
    /\ flushPos' = [flushPos EXCEPT ![r] = @ + 1]
    /\ UNCHANGED <<contexts, streamCtx, currentStreamCtx, streamPc, streamIter>>
    /\ UNCHANGED <<Clients, chanClosed, onceDone, closeCount, hubPc, bcastMsg,
                   bcastTodo, bcastCur, pc, wpc, connClosed, framesRead,
                   lastFrame, runPc, runNext, written, bcastCount, crashed>>
    /\ UNCHANGED <<toolVars, loopVars, workflowVars, scanVars>>

\* all buffered chunks are sent: ChatWithTools returns the response
StreamFlushDone(r) ==
    /\ streamPc[r] = "flush"
    /\ flushPos[r] > Len(contexts[currentStreamCtx[r]].BufferedChunks)
    /\ streamPc' = [streamPc EXCEPT ![r] = "returned"]
    /\ ReleaseCurrent(r)
    /\ UNCHANGED <<streamCtx, streamIter, flushPos, flushed>>
    /\ UNCHANGED <<toolVars, hubVars, loopVars, workflowVars, scanVars>>

StreamInit == StreamIdle /\ ToolsIdle /\ TargetConnected /\ LoopIdle /\ WorkflowIdle

StreamNext ==
    \/ \E r \in StreamRuns : StreamEnter(r)
    \/ \E r \in StreamRuns : StreamIterate(r)
    \/ \E r \in StreamRuns : StreamCallback(r)
    \/ \E r \in StreamRuns : StreamModelError(r)
    \/ \E r \in StreamRuns : StreamModelReturnsTools(r)
    \/ \E r \in StreamRuns : StreamModelReturnsFinal(r)
    \/ \E r \in StreamRuns : StreamFlushChunk(r)
    \/ \E r \in StreamRuns : StreamFlushDone(r)
    \/ WriteLoopWrite(target)

StreamSpec == StreamInit /\ [][StreamNext]_vars

\* C28: streaming runs going on at the same time, for the same client, share
\* no StreamingContext and no chunk buffer.  No context is referred to by two
\* runs, and the context of an iteration is not the one ChatStream built;
\* the buffer of a run's context holds only chunks of that run's call in
\* progress; what a run has sent are chunks of one of its own calls, at most
\* as many as that call buffered; a step of one run leaves the contexts and
\* the flush position of the other run as they were, and a chunk is sent
\* only by the run that buffered it.
C28_RunsShareNoStreamingContext ==
    /\ [](\A r \in StreamRuns :
            /\ \A q \in StreamRuns \ {r} :
                  {streamCtx[r], currentStreamCtx[r]} \cap
                  {streamCtx[q], currentStreamCtx[q]} \subseteq {0}
            /\ streamCtx[r] # 0 => streamCtx[r] # currentStreamCtx[r]
            /\ currentStreamCtx[r] # 0 =>
                  \A i \in 1..Len(contexts[currentStreamCtx[r]].BufferedChunks) :
                     contexts[currentStreamCtx[r]].BufferedChunks[i]
                        = Chunk(r, streamIter[r])
            /\ \A i \in 1..Len(flushed[r]) :
                  flushed[r][i] = Chunk(r, streamIter[r])
            /\ Len(flushed[r]) <= MaxStreamChunks)
    /\ [][\A r \in StreamRuns :
            flushed'[r] # flushed[r] =>
               /\ currentStreamCtx[r] # 0
               /\ flushed'[r] = Append(flushed[r],
                     contexts[currentStreamCtx[r]].BufferedChunks[flushPos[r]])
               /\ \A q \in StreamRuns \ {r} :
                     /\ flushed'[q] = flushed[q]
                     /\ flushPos'[q] = flushPos[q]
                     /\ currentStreamCtx[q] # 0 =>
                           contexts'[currentStreamCtx[q]]
                              = contexts[currentStreamCtx[q]]]_vars

\* both runs are flushing at the same time, each from its own buffer, and
\* each has sent a chunk of its own to the one client
C28_Witness ==
    /\ \A r \in StreamRuns :
          /\ streamPc[r] = "flush"
          /\ Len(contexts[currentStreamCtx[r]].BufferedChunks) = MaxStreamChunks
          /\ Len(flushed[r]) > 0
          /\ contexts[currentStreamCtx[r]].Client = target
    /\ streamIter["r1"] # streamIter["r2"]

\* C38: every client in the registry has an open outbound queue.  The hub
\* closes a queue only in the step that removes its client from the
\* registry, and only the queue of a client that was in the registry; a
\* closed queue is never opened again.
C38_RegisteredQueueOpen ==
    /\ [](\A c \in Clients : ~chanClosed[c])
    /\ [][chanClosed' # chanClosed =>
            \A c \in ClientIds :
               /\ (chanClosed[c] => chanClosed'[c])
               /\ (~chanClosed[c] /\ chanClosed'[c]) =>
                     /\ c \in Clients
                     /\ Clients' = Clients \ {c}
                     /\ hubPc = "select"]_vars

\* one client has been unregistered and its queue closed while the other
\* is still registered, its queue open and holding a message
C38_Witness ==
    \E c, d \in ClientIds :
       /\ c # d
       /\ chanClosed[c]
       /\ c \notin Clients
       /\ closeCount[c] = 1
       /\ d \in Clients
       /\ ~chanClosed[d]
       /\ Send[d] # << >>

\* C35: nothing is ever sent on a client's queue after the hub has closed
\* it: no read loop and no run has panicked in a send on a closed queue.
C35_NoSendOnClosedQueue ==
    \A c \in ClientIds :
       /\ ~(pc[c] = "panicked" /\ chanClosed[c])
       /\ ~(runPc[c] = "panicked" /\ chanClosed[c])

(***************************************************************************)
(* A streaming run and the read loop of its client side by side: the run    *)
(* was started with go processor.ProcessChatMessage, the read loop went on  *)
(* to the next ReadMessage.                                                 *)
(***************************************************************************)
PingInit == ChatInit

PingNext ==
    \/ ChatNext
    \/ ReadPing(target)

PingSpec == PingInit /\ [][PingNext]_vars

\* C31: while the run of a client is inside a backend call or inside
\* ExecuteTools, the read loop of that client can take a ping and answer it,
\* as long as the connection is up and the queue has a free slot; the step
\* that answers puts one pong at the end of the client's queue and neither
\* needs nor makes any step of the run.
C31_PingAnsweredDuringRun ==
    /\ []((/\ procPc = "agent"
           /\ loopPc \in {"model", "tools"}
           /\ pc[target] = "reading"
           /\ ~connClosed[target]
           /\ framesRead < MaxFrames
           /\ CanSend(target))
          => ENABLED ReadPing(target))
    /\ [][framesRead' # framesRead =>
            /\ lastFrame' = Frame(target, "ping")
            /\ Send' = [Send EXCEPT ![target] = Append(@, PongMsg)]
            /\ UNCHANGED <<loopVars, toolVars, pc, runPc>>]_vars

\* a pong was enqueued while the run was inside ExecuteTools, behind the
\* chat_starting envelope of the run
C31_Witness ==
    /\ procPc = "agent"
    /\ loopPc = "tools"
    /\ etPc = "exec"
    /\ lastFrame = Frame(target, "ping")
    /\ Send[target] = <<StartingMsg, PongMsg>>

\* C40: when ProcessChatMessage fails before it reaches the agent (the board
\* id is not a UUID, or the chat history cannot be loaded) the error
\* envelope is all the run ever sends: the step that sends an error as the
\* first envelope ends the run with ChatWithTools never entered, and from
\* then on the run sends nothing and makes no model call.
C40_EarlyErrorStopsRun ==
    /\ [][(procPc = "entry" /\ runSent' = <<ErrorMsg>>) =>
             /\ procPc' = "failed"
             /\ loopPc' = "idle"
             /\ modelCalls' = 0
             /\ Send' = [Send EXCEPT ![target] = Append(@, ErrorMsg)]]_vars
    /\ [][(procPc = "failed" /\ loopPc = "idle") =>
             UNCHANGED <<runSent, modelCalls, loopPc, procPc>>]_vars
    /\ []((procPc = "failed" /\ loopPc = "idle") =>
             /\ runSent = <<ErrorMsg>>
             /\ modelCalls = 0)

\* the run ended at the entry and the client's queue holds the one error
C40_Witness ==
    /\ procPc = "failed"
    /\ loopPc = "idle"
    /\ modelCalls = 0
    /\ runSent = <<ErrorMsg>>
    /\ Send[target] = <<ErrorMsg>>

\* C36: a run that has sent chat_starting does not end without its terminal
\* envelope: no run has stopped in a panic after its first envelope and
\* before its last one.
C36_StartedRunSendsTerminal ==
    \A c \in ClientIds :
       ~(/\ runPc[c] = "panicked"
         /\ runNext[c] > 1
         /\ runNext[c] <= MaxRunMsgs
         /\ \A i \in 1..Len(written[c]) : written[c][i] # RunMsg(MaxRunMsgs)
         /\ \A i \in 1..Len(Send[c]) : Send[c][i] # RunMsg(MaxRunMsgs))

\* C37: in the order in which a streaming run enqueues its envelopes, every
\* shape_created envelope comes before the chat_completed envelope, and in
\* the LangChain loop also before every chat_response envelope; a shape is
\* enqueued only while the run is inside ExecuteTools.
C37_ShapesBeforeFinalText ==
    /\ [](\A i, j \in 1..Len(runSent) :
             runSent[i].type = "shape_created" =>
                /\ runSent[j].type = "chat_completed" => i < j
                /\ (provider = "langchain" /\ runSent[j].type = "chat_response")
                      => i < j)
    /\ [][(Len(runSent') > Len(runSent)
             /\ runSent'[Len(runSent')].type = "shape_created") =>
             /\ loopPc = "tools"
             /\ procPc = "agent"
             /\ Send' = [Send EXCEPT ![target] = Append(@, ShapeMsg)]]_vars

\* a finished LangChain run that sent a shape, then a chunk of the final
\* response, then chat_completed
C37_Witness ==
    /\ provider = "langchain"
    /\ procPc = "done"
    /\ Len(runSent) >= 4
    /\ runSent[1] = StartingMsg
    /\ runSent[2] = ShapeMsg
    /\ runSent[3].type = "chat_response"
    /\ runSent[Len(runSent)].type = "chat_completed"

\* C39: ExecuteTools runs once for every model response that has a tool call
\* and for no other.  The responses with tool calls so far are as many as the
\* batches finished plus the one in progress; the step in which such a
\* response arrives enters ExecuteTools with its calls, and ExecuteTools is
\* entered in no other step; a batch is left only when every call has its
\* result, and no model call is made in between.  When the budget is
\* exhausted every response had tool calls and every batch was run, the one
\* of the last response included.
C39_BatchPerToolResponse ==
    /\ [](loopPc # "idle" =>
            Cardinality({i \in 1..Len(callHadTools) : callHadTools[i]})
               = iter + (IF loopPc = "tools" THEN 1 ELSE 0))
    /\ []((loopPc = "returned" /\ retErr = "max iterations") =>
            /\ iter = maxIterations(provider)
            /\ modelCalls = maxIterations(provider)
            /\ Len(callHadTools) = maxIterations(provider)
            /\ \A i \in 1..Len(callHadTools) : callHadTools[i])
    /\ [][<<callHadTools, etPc, loopPc>>' # <<callHadTools, etPc, loopPc>> =>
            /\ (callHadTools' # callHadTools
                  /\ callHadTools'[Len(callHadTools')]) =>
                  /\ etPc' = "exec"
                  /\ toolCalls' # << >>
                  /\ loopPc' = "tools"
            /\ (etPc' = "exec" /\ etPc # "exec") =>
                  callHadTools' = Append(callHadTools, TRUE)
            /\ (loopPc = "tools" /\ loopPc' # "tools") =>
                  /\ etPc = "done"
                  /\ Len(results) = Len(toolCalls)
                  /\ iter' = iter + 1
                  /\ modelCalls' = modelCalls]_vars

\* the batch of the response of the last iteration has been run: every call
\* of it has a result, and the next step of the loop is the exhaustion
C39_Witness ==
    /\ provider = "langchain"
    /\ loopPc = "tools"
    /\ etPc = "done"
    /\ iter = maxIterations(provider) - 1
    /\ modelCalls = maxIterations(provider)
    /\ Len(results) = Len(toolCalls)
    /\ Len(results) > 0

(***************************************************************************)
(* streamingFunc with a flag the caller chose.                              *)
(***************************************************************************)
\* callLangChainWithMessages is in a backend call for each run, with a
\* StreamingContext that has a client (the callback is installed only then),
\* either value of ShouldStream and a buffer that may hold an earlier chunk
CallbackInit ==
    /\ ToolsIdle /\ TargetConnected /\ LoopIdle /\ WorkflowIdle /\ NoScan
    /\ streamCtx = [r \in StreamRuns |-> 0]
    /\ \E cur \in [StreamRuns -> CtxIds] :
          /\ \A r1, r2 \in StreamRuns : cur[r1] = cur[r2] => r1 = r2
          /\ \A r1, r2 \in StreamRuns : cur[r1] <= cur[r2] \/ r1 # "r1"
          /\ \A r \in StreamRuns : cur[r] <= Cardinality(StreamRuns)
          /\ currentStreamCtx = cur
          /\ \E flag \in [StreamRuns -> BOOLEAN] :
             \E had \in [StreamRuns -> BOOLEAN] :
                contexts =
                   [i \in CtxIds |->
                      IF \E r \in StreamRuns : cur[r] = i
                      THEN LET r == CHOOSE q \in StreamRuns : cur[q] = i
                           IN  [Client |-> target,
                                BufferedChunks |->
                                   IF had[r] THEN <<Chunk(r, 0)>> ELSE << >>,
                                ShouldStream |-> flag[r]]
                      ELSE NoContext]
    /\ streamPc = [r \in StreamRuns |-> "model"]
    /\ streamIter = [r \in StreamRuns |-> 1]
    /\ flushPos = [r \in StreamRuns |-> 1]
    /\ flushed = [r \in StreamRuns |-> << >>]

CallbackNext ==
    \/ \E r \in StreamRuns : StreamCallback(r)
    \/ WriteLoopWrite(target)

CallbackSpec == CallbackInit /\ [][CallbackNext]_vars

\* C32: the chunk callback obeys ShouldStream.  A call of it with the flag
\* unset appends the chunk at the end of BufferedChunks of its context and
\* sends nothing; a call with the flag set puts one chat_response envelope
\* with the chunk on the queue of the client and leaves every buffer as it
\* was.  So a context with the flag unset has sent nothing, one with the flag
\* set has buffered nothing, and the queue grows only by a call with the flag
\* set.
C32_CallbackObeysShouldStream ==
    /\ [](\A r \in DOMAIN streamPc :
            streamPc[r] = "model" /\ streamIter[r] = 1 /\ streamCtx[r] = 0 =>
               LET sc == contexts[currentStreamCtx[r]]
               IN  /\ ~sc.ShouldStream => flushed[r] = << >>
                   /\ sc.ShouldStream =>
                         \A i \in 1..Len(sc.BufferedChunks) :
                            sc.BufferedChunks[i] = Chunk(r, 0))
    /\ [][<<contexts, flushed, Send>>' # <<contexts, flushed, Send>> =>
            /\ \A r \in DOMAIN streamPc :
                  (flushed'[r] # flushed[r]
                     \/ contexts'[currentStreamCtx[r]]
                           # contexts[currentStreamCtx[r]]) =>
                     LET sc == contexts[currentStreamCtx[r]]
                         chunk == Chunk(r, streamIter[r])
                     IN  IF sc.ShouldStream
                         THEN /\ Send' = [Send EXCEPT ![sc.Client] =
                                             Append(@, ChunkMsg(chunk))]
                              /\ contexts' = contexts
                         ELSE /\ contexts' =
                                    [contexts EXCEPT
                                        ![currentStreamCtx[r]].BufferedChunks =
                                            Append(sc.BufferedChunks, chunk)]
                              /\ Send' = Send
                              /\ flushed' = flushed
            /\ (\E c \in DOMAIN Send : Len(Send'[c]) > Len(Send[c])) =>
                  \E r \in DOMAIN streamPc :
                     /\ contexts[currentStreamCtx[r]].ShouldStream
                     /\ flushed'[r] # flushed[r]]_vars

\* one run has the flag set and its chunk is on the queue, its buffer still
\* the earlier chunk alone; the other has the flag unset and its chunk is at
\* the end of its buffer, nothing sent
C32_Witness ==
    /\ streamCtx = [r \in StreamRuns |-> 0]
    /\ contexts[currentStreamCtx["r1"]].ShouldStream
    /\ contexts[currentStreamCtx["r1"]].BufferedChunks = <<Chunk("r1", 0)>>
    /\ Send[target] = <<ChunkMsg(Chunk("r1", 1))>>
    /\ ~contexts[currentStreamCtx["r2"]].ShouldStream
    /\ contexts[currentStreamCtx["r2"]].BufferedChunks
          = <<Chunk("r2", 0), Chunk("r2", 1)>>
    /\ flushed["r2"] = << >>

(***************************************************************************)
(* ExecuteTools with handlers that return any value.                        *)
(***************************************************************************)
ImageInit ==
    /\ toolHandlers = RegisterAllTools
    /\ NoRegistryCallers
    /\ \E batch \in SeqsUpTo(ToolCall, MaxImageCalls) : EnterExecuteTools(batch)
    /\ HubInit
    /\ LoopIdle
    /\ WorkflowIdle
    /\ NoStreamRuns

ImageNext ==
    \/ ExecEmptyInput
    \/ ExecUnknownTool
    \/ ExecHandlerError
    \/ ExecHandlerReturns(HandlerReturns)
    \/ ExecuteToolsReturn

ImageSpec == ImageInit /\ [][ImageNext]_vars

\* C33: a result of ExecuteTools has HasImage, and an ImageData, exactly if
\* the handler returned, without error, a map whose _imageContent entry is
\* the boolean true; the media type is then image/<format> for a map with a
\* non-empty format string and image/png for any other.  A result with an
\* error has no image, no ImageData and no Result.
C33_ImageResultMarking ==
    \A i \in 1..Len(results) :
       LET r == results[i]
           o == outcomes[i]
           returned == o \in HandlerReturns
       IN  /\ r.HasImage <=>
                 /\ r.Error = "nil"
                 /\ returned
                 /\ o # "notMap"
                 /\ ImageContentEntry(o) = "true"
           /\ r.HasImage <=> r.ImageData # NilImageData
           /\ r.HasImage =>
                 /\ Len(r.ImageData) = 1
                 /\ r.ImageData[1].MediaType =
                       (IF FormatEntry(o) \in {"png", "jpeg"}
                        THEN <<"image", FormatEntry(o)>>
                        ELSE <<"image", "png">>)
           /\ r.Error # "nil" <=> ~returned
           /\ r.Error # "nil" =>
                 /\ ~r.HasImage
                 /\ r.ImageData = NilImageData
                 /\ r.Result = "nil"

\* a handler returned a map marked as image content with the format jpeg:
\* the result has the media type image/jpeg
C33_Witness ==
    /\ etPc = "done"
    /\ Len(results) = 1
    /\ outcomes[1] = "imageJpeg"
    /\ results[1].HasImage
    /\ results[1].ImageData[1].MediaType = <<"image", "jpeg">>

(***************************************************************************)
(* StreamClaudeWithMessages: the tool_use blocks of one streamed response.  *)
(***************************************************************************)
\* the block indexes, ids and names events carry; an id or a name may be
\* missing
BlockIndexes == {0, 1}

ToolUseIds == {"", "tu1", "tu2"}

ToolUseNames == {"", "addShape"}

\* a tool input: an empty map, or one with arguments
ToolUseInputs == {"empty", "args"}

\* the ToolUse a builder holds, and whether its input builder has text
Builder(id, name, input, json) ==
    [ID |-> id, Name |-> name, Input |-> input, json |-> json]

ToolUse(id, name, input) == [ID |-> id, Name |-> name, Input |-> input]

\* the accumulated JSON, when there is some, becomes the input
Finalized(b) == ToolUse(b.ID, b.Name, IF b.json THEN "args" ELSE b.Input)

\* delete(currentToolUseBuilders, idx)
DeleteBuilder(b, idx) == [k \in (DOMAIN b) \ {idx} |-> b[k]]

\* the orders in which a range over a map may visit its keys
RangeOrders(S) ==
    {o \in [1..Cardinality(S) -> S] :
        \A i, j \in 1..Cardinality(S) : o[i] = o[j] => i = j}

\* the loop of content_block_stop and of the final flush over the indexes to
\* finalize: a builder with an id and a name is appended to cr.ToolUses
RECURSIVE FinalizeAll(_, _, _)
FinalizeAll(uses, b, order) ==
    IF order = << >> THEN uses
    ELSE LET t == b[Head(order)]
         IN  FinalizeAll(IF t.ID # "" /\ t.Name # ""
                         THEN Append(uses, Finalized(t)) ELSE uses,
                         b, Tail(order))

\* FinalizeAll appending a builder only when cr.ToolUses has no entry with
\* its id yet
RECURSIVE FinalizePending(_, _, _)
FinalizePending(uses, b, order) ==
    IF order = << >> THEN uses
    ELSE LET t == b[Head(order)]
             alreadyAdded == \E k \in 1..Len(uses) : uses[k].ID = t.ID
         IN  FinalizePending(IF t.ID # "" /\ t.Name # "" /\ ~alreadyAdded
                             THEN Append(uses, Finalized(t)) ELSE uses,
                             b, Tail(order))

\* a tool_use block with an id and a name has been received
Announce(seq, id, name) ==
    IF id # "" /\ name # "" /\ \A k \in 1..Len(seq) : seq[k].ID # id
    THEN Append(seq, [ID |-> id, Name |-> name])
    ELSE seq

Scanning == scanPc = "scanning" /\ scanned < MaxEvents

\* content_block_start of a tool_use block: a new builder at the index,
\* in the place of the one that was there
ScanContentBlockStart(idx, id, name) ==
    /\ Scanning
    /\ scanned' = scanned + 1
    /\ announced' = Announce(announced, id, name)
    /\ currentToolUseBuilders' =
          [k \in (DOMAIN currentToolUseBuilders) \cup {idx} |->
              IF k = idx THEN Builder(id, name, "empty", FALSE)
              ELSE currentToolUseBuilders[k]]
    /\ UNCHANGED <<scanPc, ToolUses>>
    /\ UNCHANGED <<toolVars, hubVars, loopVars, workflowVars, streamVars>>

\* content_block_delta with an input_json_delta: the text goes to the input
\* builder of the index, or to that of the highest index when there is none
ScanContentBlockDelta(idx) ==
    /\ Scanning
    /\ scanned' = scanned + 1
    /\ LET b == currentToolUseBuilders
           at == IF idx \in DOMAIN b THEN {idx}
                 ELSE {k \in DOMAIN b : \A j \in DOMAIN b : j <= k}
       IN  currentToolUseBuilders' =
              [k \in DOMAIN b |->
                  IF k \in at THEN [b[k] EXCEPT !.json = TRUE] ELSE b[k]]
    /\ UNCHANGED <<scanPc, announced, ToolUses>>
    /\ UNCHANGED <<toolVars, hubVars, loopVars, workflowVars, streamVars>>

\* content_block_stop: the builder at ev.Index is finalized, or every
\* builder when there is none at that index
ScanContentBlockStop(idx) ==
    /\ Scanning
    /\ scanned' = scanned + 1
    /\ LET b == currentToolUseBuilders
       IN  IF idx \in DOMAIN b
           THEN /\ ToolUses' = FinalizeAll(ToolUses, b, <<idx>>)
                /\ currentToolUseBuilders' = DeleteBuilder(b, idx)
           ELSE /\ \E order \in RangeOrders(DOMAIN b) :
                      ToolUses' = FinalizeAll(ToolUses, b, order)
                /\ currentToolUseBuilders' = << >>
    /\ UNCHANGED <<scanPc, announced>>
    /\ UNCHANGED <<toolVars, hubVars, loopVars, workflowVars, streamVars>>

\* message_stop: the pending builders are finalized, those whose id
\* cr.ToolUses already has left out, and the maps are replaced by empty ones
ScanMessageStop ==
    /\ Scanning
    /\ scanned' = scanned + 1
    /\ \E order \in RangeOrders(DOMAIN currentToolUseBuilders) :
          ToolUses' = FinalizePending(ToolUses, currentToolUseBuilders, order)
    /\ currentToolUseBuilders' = << >>
    /\ UNCHANGED <<scanPc, announced>>
    /\ UNCHANGED <<toolVars, hubVars, loopVars, workflowVars, streamVars>>

\* content_block with one complete tool_use block: it is appended to
\* cr.ToolUses, and the builder at its index takes its id, name and input
ScanContentBlock(idx, id, name, input) ==
    /\ Scanning
    /\ scanned' = scanned + 1
    /\ announced' = Announce(announced, id, name)
    /\ LET b == currentToolUseBuilders
           accumulated == idx \in DOMAIN b /\ b[idx].json
       IN  /\ ToolUses' =
                 Append(ToolUses,
                        ToolUse(id, name,
                                IF input = "empty" /\ accumulated
                                THEN "args" ELSE input))
           /\ currentToolUseBuilders' =
                 [k \in DOMAIN b |->
                     IF k = idx
                     THEN Builder(id, name,
                                  IF input = "args" \/ accumulated
                                  THEN "args" ELSE b[k].Input,
                                  b[k].json)
                     ELSE b[k]]
    /\ UNCHANGED scanPc
    /\ UNCHANGED <<toolVars, hubVars, loopVars, workflowVars, streamVars>>

\* the stream ends, or [DONE] is read: the remaining builders are finalized
\* and cr is returned
ScanEnd ==
    /\ scanPc = "scanning"
    /\ \E order \in RangeOrders(DOMAIN currentToolUseBuilders) :
          ToolUses' = FinalizeAll(ToolUses, currentToolUseBuilders, order)
    /\ currentToolUseBuilders' = << >>
    /\ scanPc' = "returned"
    /\ UNCHANGED <<scanned, announced>>
    /\ UNCHANGED <<toolVars, hubVars, loopVars, workflowVars, streamVars>>

\* scanner.Err(): nil and the error are returned
ScanError ==
    /\ scanPc = "scanning"
    /\ scanPc' = "failed"
    /\ UNCHANGED <<scanned, announced, currentToolUseBuilders, ToolUses>>
    /\ UNCHANGED <<toolVars, hubVars, loopVars, workflowVars, streamVars>>

\* the response has status 200: cr is empty and the scan begins
ScanInit ==
    /\ ToolsIdle /\ HubInit /\ LoopIdle /\ WorkflowIdle
    /\ contexts = << >>
    /\ streamCtx = << >>
    /\ currentStreamCtx = << >>
    /\ streamPc = << >>
    /\ streamIter = << >>
    /\ flushPos = << >>
    /\ flushed = << >>
    /\ scanPc = "scanning"
    /\ scanned = 0
    /\ announced = << >>
    /\ currentToolUseBuilders = << >>
    /\ ToolUses = << >>

ScanNext ==
    \/ \E idx \in BlockIndexes, id \in ToolUseIds, name \in ToolUseNames :
          ScanContentBlockStart(idx, id, name)
    \/ \E idx \in BlockIndexes : ScanContentBlockDelta(idx)
    \/ \E idx \in BlockIndexes : ScanContentBlockStop(idx)
    \/ ScanMessageStop
    \/ \E idx \in BlockIndexes, id \in ToolUseIds, name \in ToolUseNames,
          input \in ToolUseInputs :
          ScanContentBlock(idx, id, name, input)
    \/ ScanEnd
    \/ ScanError

ScanSpec == ScanInit /\ [][ScanNext]_vars

\* the entries of cr.ToolUses that have an id and a name
NamedToolUses ==
    SelectSeq(ToolUses, LAMBDA t : t.ID # "" /\ t.Name # "")

\* C34: whatever the events of the stream, the ToolUses returned that have
\* an id and a name are the tool_use blocks received with an id and a name,
\* each once, in the order of receipt.
C34_ToolUsesOnceInOrder ==
    scanPc = "returned" =>
       /\ Len(NamedToolUses) = Len(announced)
       /\ \A k \in 1..Len(announced) :
             /\ NamedToolUses[k].ID = announced[k].ID
             /\ NamedToolUses[k].Name = announced[k].Name

====
